---- MODULE Spec2Model ----
(***************************************************************************)
(* Pulse sequence engine of nqrduck-spectrometer: waveform Functions,      *)
(* Options, pulse parameters, Events and PulseSequences, and their         *)
(* to_json / from_json serialization (pulseparameters.py,                  *)
(* pulsesequence.py, base_spectrometer_model.py).                          *)
(*                                                                         *)
(* Python objects are records.  A number is [ty, n] with ty the Python     *)
(* type ("int", "float", "bool", "Decimal") and n its value in             *)
(* thousandths (True is 1000); times are counted in ticks of half the      *)
(* default resolution.  A text is [ty |-> "str", s |-> text].  The outcome *)
(* of a call is [ok |-> TRUE, val |-> result] or                           *)
(* [ok |-> FALSE, err |-> exception].                                      *)
(***************************************************************************)
EXTENDS Integers, Sequences, FiniteSets, TLC

VARIABLES
    seq,         \* Spec: the PulseSequence under edit
    edits,       \* Spec: the number of set_value calls made on it so far
    seqData,     \* Spec: the serialized sequence handed to load_sequence
    seqRegistry, \* Spec: the pulse_parameter_options handed to load_sequence
    seqLoaded,   \* Spec: outcome of load_sequence
    pc,          \* Spec: "edit", then "dumped" after to_json, then "loaded"
    file,        \* SpecLoad: the serialized sequence of a sequence file
    fileRegistry, \* SpecLoad: the pulse_parameter_options handed to load_sequence
    fileLoaded,  \* SpecLoad: outcome of load_sequence on the file
    ev,          \* SpecEvent: the Event object
    evCall,      \* SpecEvent: the last method call on ev: method, argument, ev before
    evResult,    \* SpecEvent: outcome of that call
    pulsePar,    \* SpecParameter: the pulse parameter object
    pulseParCall, \* SpecParameter: the last method call on pulsePar: method, argument, pulsePar before
    setting,     \* SpecSetting: the setting object
    settingCall, \* SpecSetting: the last request: method, argument, setting before
    settingResult, \* SpecSetting: outcome of that request, with the number of
                 \* settings_changed emissions it made
    pulseParResult, \* SpecParameter: outcome of that call
    opt,         \* SpecOption: the Option object under edit
    optData,     \* SpecOption: the serialized form handed to Option.from_json
    optLoaded,   \* SpecOption: outcome of the last Option.from_json
    optCall,     \* SpecOption: the last method call on opt: method, argument, opt before
    optResult,   \* SpecOption: outcome of that call
    fn,          \* SpecFunction: the Function object under edit
    fnData,      \* SpecFunction: the serialized form handed to Function.from_json
    fnLoaded,    \* SpecFunction: outcome of the last Function.from_json / Function(expr)
    fnCall,      \* SpecFunction: arguments of the last evaluate call
    samples,     \* SpecFunction: outcome of the last evaluate call
    spectrometerModel, \* SpecMenu: the SpectrometerModel
    spectrometerView, \* SpecMenu: the SpectrometerView: menu actions, stacked widgets
    menuPc,      \* SpecMenu: "loading", then "ready" or "failed" after
                 \* create_menu_entry, "extended" once a spectrometer is added later
    menuCall,    \* SpecMenu: the last method call: method, argument, model and view before
    menuResult,  \* SpecMenu: outcome of that call, with the signals emitted and
                 \* the stacked widget calls made, in order
    moduleSettings, \* SpecController: the settings of the spectrometer's model
    settingsFile, \* SpecController: the dict read from the settings file (empty: no file)
    loadResult,  \* SpecController: outcome of the last load_settings, with the
                 \* settings before it and the notifications it emitted
    heap,        \* SpecHeap: the objects on the heap, by address
    roots,       \* SpecHeap: the addresses of the two PulseSequence objects (0: none)
    heapData,    \* SpecHeap: the serialized sequence the loads read
    heapEdits,   \* SpecHeap: the number of method calls made on the sequences
    heapCall     \* SpecHeap: the last method call: method, the sequence it was made
                 \* on, and the serialized form of each sequence before it

fnVars == <<fn, fnData, fnLoaded, fnCall, samples>>

optVars == <<opt, optData, optLoaded, optCall, optResult>>

seqVars == <<seq, edits, seqData, seqRegistry, seqLoaded, pc>>

fileVars == <<file, fileRegistry, fileLoaded>>

evVars == <<ev, evCall, evResult>>

parVars == <<pulsePar, pulseParCall, pulseParResult>>

settingVars == <<setting, settingCall, settingResult>>

menuVars == <<spectrometerModel, spectrometerView, menuPc, menuCall, menuResult>>

ctlVars == <<moduleSettings, settingsFile, loadResult>>

heapVars == <<heap, roots, heapData, heapEdits, heapCall>>

\* the variables a step of SpecFunction, of SpecOption, of Spec, of SpecLoad,
\* of SpecEvent, of SpecParameter, of SpecSetting, of SpecMenu, of
\* SpecController, of SpecHeap leaves alone
notFnVars ==
    <<optVars, seqVars, fileVars, evVars, parVars, settingVars, menuVars, ctlVars, heapVars>>
notOptVars ==
    <<fnVars, seqVars, fileVars, evVars, parVars, settingVars, menuVars, ctlVars, heapVars>>
notSeqVars ==
    <<fnVars, optVars, fileVars, evVars, parVars, settingVars, menuVars, ctlVars, heapVars>>
notFileVars ==
    <<fnVars, optVars, seqVars, evVars, parVars, settingVars, menuVars, ctlVars, heapVars>>
notEvVars ==
    <<fnVars, optVars, seqVars, fileVars, parVars, settingVars, menuVars, ctlVars, heapVars>>
notParVars ==
    <<fnVars, optVars, seqVars, fileVars, evVars, settingVars, menuVars, ctlVars, heapVars>>
notSettingVars ==
    <<fnVars, optVars, seqVars, fileVars, evVars, parVars, menuVars, ctlVars, heapVars>>
notMenuVars ==
    <<fnVars, optVars, seqVars, fileVars, evVars, parVars, settingVars, ctlVars, heapVars>>
notCtlVars ==
    <<fnVars, optVars, seqVars, fileVars, evVars, parVars, settingVars, menuVars, heapVars>>
notHeapVars ==
    <<fnVars, optVars, seqVars, fileVars, evVars, parVars, settingVars, menuVars, ctlVars>>

vars ==
    <<fnVars, optVars, seqVars, fileVars, evVars, parVars, settingVars, menuVars, ctlVars, heapVars>>

-----------------------------------------------------------------------------
(* Python values *)

None == [ty |-> "NoneType"]
IntV(k) == [ty |-> "int", n |-> k * 1000]
FloatV(k) == [ty |-> "float", n |-> k * 1000]
BoolV(b) == [ty |-> "bool", n |-> IF b THEN 1000 ELSE 0]
TextV(s) == [ty |-> "str", s |-> s]
DecimalV(k) == [ty |-> "Decimal", n |-> k * 1000]

Ok(v) == [ok |-> TRUE, val |-> v]
Raise(e) == [ok |-> FALSE, err |-> e]
RaiseMsg(e, msg) == [ok |-> FALSE, err |-> e, msg |-> msg]

IsNumeric(v) == v.ty \in {"int", "float", "bool"}

\* a fallible step followed by another: an exception ends the call
Bind(r, F(_)) == IF r.ok THEN F(r.val) ELSE r

\* the texts float() reads as a number, with the number in thousandths
FloatLiterals ==
    <<[text |-> "3.5", n |-> 3500], [text |-> " 2 ", n |-> 2000],
      [text |-> "-1e0", n |-> -1000]>>

\* float(v): a number converts, text is parsed; text that is no number
\* raises ValueError, None raises TypeError
PyFloat(v) ==
    IF IsNumeric(v) \/ v.ty = "Decimal" THEN Ok([ty |-> "float", n |-> v.n])
    ELSE IF v.ty = "str"
         THEN IF \E i \in 1..Len(FloatLiterals) : FloatLiterals[i].text = v.s
              THEN Ok([ty |-> "float",
                       n |-> FloatLiterals[CHOOSE i \in 1..Len(FloatLiterals) :
                                              FloatLiterals[i].text = v.s].n])
              ELSE Raise("ValueError")
         ELSE Raise("TypeError")

\* Decimal(v): a number converts; text that is no number raises
\* InvalidOperation, None raises TypeError
PyDecimal(v) ==
    IF IsNumeric(v) \/ v.ty = "Decimal" THEN Ok([ty |-> "Decimal", n |-> v.n])
    ELSE Raise(IF v.ty = "str" THEN "InvalidOperation" ELSE "TypeError")

\* int(a / b) for Decimals: the quotient truncated toward zero
TruncDiv(a, b) ==
    IF a >= 0 THEN a \div b ELSE -((-a) \div b)

-----------------------------------------------------------------------------
(* sympy, as far as Function uses it: sympify(text), str(expr),            *)
(* expr.subs(bindings), expr.is_number, float(expr).  An expression object *)
(* is [ty |-> "Expr", id |-> its identity].                                *)

Expr(id) == [ty |-> "Expr", id |-> id]

\* the texts sympify parses, with the expression each denotes
SympifyTable ==
    { <<"1", "one">>,
      <<"sin(x * l)/ (x * l)", "sinc">>,
      <<"sin(l*x)/(l*x)", "sinc">>,
      <<"exp(-0.5 * ((x - mu) / sigma)**2)", "gauss">>,
      <<"exp(-0.5*(-mu + x)**2/sigma**2)", "gauss">>,
      <<" 2 * x**2 + 3 * x + 1", "custom">>,
      <<"2*x**2 + 3*x + 1", "custom">> }

\* sympy.sympify(text): the expression, or SympifyError for malformed text
Sympify(text) ==
    IF \E p \in SympifyTable : p[1] = text
    THEN Ok(Expr((CHOOSE p \in SympifyTable : p[1] = text)[2]))
    ELSE Raise("SympifyError")

\* str(expr): sympy's canonical printed form
Str(e) ==
    CASE e.id = "one" -> "1"
      [] e.id = "sinc" -> "sin(l*x)/(l*x)"
      [] e.id = "gauss" -> "exp(-0.5*(-mu + x)**2/sigma**2)"
      [] e.id = "custom" -> "2*x**2 + 3*x + 1"

\* expr.free_symbols
FreeSymbols(e) ==
    CASE e.id = "one" -> {}
      [] e.id = "sinc" -> {"l", "x"}
      [] e.id = "gauss" -> {"mu", "sigma", "x"}
      [] e.id = "custom" -> {"x"}

\* expr.subs(bindings): bindings is a function from symbols to numbers.
\* sin(l*x)/(l*x) at l = 0 is 0 * zoo, which sympy evaluates to nan.
Subs(e, bindings) ==
    LET used == FreeSymbols(e) \cap DOMAIN bindings
        env == [s \in used |-> bindings[s]]
    IN  IF e.id = "sinc" /\ "l" \in used /\ env["l"].n = 0
        THEN [ty |-> "Expr", id |-> "nan", env |-> [s \in {} |-> None], free |-> {}]
        ELSE [ty |-> "Expr", id |-> e.id, env |-> env, free |-> FreeSymbols(e) \ used]

\* is_number never taken: evaluate without its constant shortcut
IsNumber_never(fe) == FALSE

\* final_expr.is_number
IsNumber(fe) == fe.free = {}

\* float(final_expr) of a constant expression
ExprFloat(fe) ==
    CASE fe.id = "one" -> FloatV(1)
      [] fe.id = "nan" -> [ty |-> "float", nan |-> TRUE]

-----------------------------------------------------------------------------
(* class Function and its built-in shapes (pulseparameters.py) *)

Pi == 3142
DefaultResolution == 2

Unset == [ty |-> "unset"]

\* Function.Parameter.__init__
Parameter(name, symbol, value) ==
    [name |-> name, symbol |-> symbol, value |-> value, default |-> value]

\* Function.Parameter.set_value
Parameter_set_value(p, value) == [p EXCEPT !.value = value]

\* Function.Parameter.to_json
Parameter_to_json(p) ==
    [name |-> p.name, symbol |-> p.symbol, value |-> p.value, default |-> p.default]

\* Parameter.from_json without the assignment of the stored default
Parameter_from_json_value_as_default(data) ==
    Parameter(data.name, data.symbol, data.value)

\* Function.Parameter.from_json
Parameter_from_json(data) ==
    [Parameter(data.name, data.symbol, data.value) EXCEPT !.default = data.default]

\* Function.expr setter: text is sympified, an expression is stored, and
\* any other value leaves the attribute as it was
expr_setter(obj, expr) ==
    IF expr.ty = "str"
    THEN LET r == Sympify(expr.s)
         IN  IF r.ok THEN Ok([obj EXCEPT !.expr = r.val]) ELSE Raise("SyntaxError")
    ELSE IF expr.ty = "Expr" THEN Ok([obj EXCEPT !.expr = expr])
    ELSE Ok(obj)

\* Function.resolution setter
resolution_setter(obj, resolution) ==
    LET r == PyDecimal(resolution)
    IN  IF r.ok THEN Ok([obj EXCEPT !.resolution = r.val]) ELSE Raise("SyntaxError")

\* Function.start_x setter
start_x_setter(obj, start_x) ==
    LET r == PyFloat(start_x)
    IN  IF r.ok THEN Ok([obj EXCEPT !.start_x = r.val]) ELSE Raise("SyntaxError")

\* Function.end_x setter
end_x_setter(obj, end_x) ==
    LET r == PyFloat(end_x)
    IN  IF r.ok THEN Ok([obj EXCEPT !.end_x = r.val]) ELSE Raise("SyntaxError")

\* Function.add_parameter
add_parameter(obj, parameter) ==
    [obj EXCEPT !.parameters = Append(@, parameter)]

\* Function.__init__(expr) run for an object of class cls, whose class
\* attribute name is name (the base class declares none)
Function_init(cls, name, expr) ==
    LET blank == [cls |-> cls, name |-> name, parameters |-> <<>>, expr |-> Unset,
                  resolution |-> Unset, start_x |-> Unset, end_x |-> Unset]
    IN  Bind(expr_setter(blank, expr), LAMBDA o1 :
        Bind(resolution_setter(o1, DecimalV(DefaultResolution)), LAMBDA o2 :
        Bind(start_x_setter(o2, IntV(-1)), LAMBDA o3 :
        end_x_setter(o3, IntV(1)))))

RectFunction ==
    Function_init("RectFunction", "Rectangular", Sympify("1").val).val

SincFunction ==
    LET o1 == Function_init("SincFunction", "Sinc", Sympify("sin(x * l)/ (x * l)").val).val
        o2 == add_parameter(o1, Parameter("Scale Factor", "l", IntV(2)))
        o3 == start_x_setter(o2, [ty |-> "float", n |-> -Pi]).val
    IN  end_x_setter(o3, [ty |-> "float", n |-> Pi]).val

GaussianFunction ==
    LET o1 == Function_init("GaussianFunction", "Gaussian",
                            Sympify("exp(-0.5 * ((x - mu) / sigma)**2)").val).val
        o2 == add_parameter(o1, Parameter("Mean", "mu", IntV(0)))
        o3 == add_parameter(o2, Parameter("Standard Deviation", "sigma", IntV(1)))
        o4 == start_x_setter(o3, [ty |-> "float", n |-> -Pi]).val
    IN  end_x_setter(o4, [ty |-> "float", n |-> Pi]).val

CustomFunction ==
    Function_init("CustomFunction", "Custom", Sympify(" 2 * x**2 + 3 * x + 1").val).val

\* Function.__subclasses__(), in definition order, each with its no-argument
\* constructor
FunctionSubclasses ==
    <<RectFunction, SincFunction, GaussianFunction, CustomFunction>>

\* a pick that falls back to the first shape when no name matches
subclass_for_or_first(name) ==
    LET hits == {i \in 1..Len(FunctionSubclasses) : FunctionSubclasses[i].name = name}
    IN  IF hits = {} THEN FunctionSubclasses[1].cls
        ELSE FunctionSubclasses[CHOOSE i \in hits : \A j \in hits : i <= j].cls

\* the subclass Function.from_json picks: the first whose name matches,
\* else the class from_json was called on, Function itself
subclass_for(name) ==
    LET hits == {i \in 1..Len(FunctionSubclasses) : FunctionSubclasses[i].name = name}
    IN  IF hits = {} THEN "Function"
        ELSE FunctionSubclasses[CHOOSE i \in hits : \A j \in hits : i <= j].cls

\* cls() with a base class that falls back to the Custom shape
construct_with_fallback(cls) ==
    LET hits == {i \in 1..Len(FunctionSubclasses) : FunctionSubclasses[i].cls = cls}
    IN  IF hits = {} THEN Ok(CustomFunction)
        ELSE Ok(FunctionSubclasses[CHOOSE i \in hits : TRUE])

\* cls(): a shape's constructor takes no argument; Function() lacks its
\* required argument expr and raises TypeError
construct(cls) ==
    LET hits == {i \in 1..Len(FunctionSubclasses) : FunctionSubclasses[i].cls = cls}
    IN  IF hits = {} THEN Raise("TypeError")
        ELSE Ok(FunctionSubclasses[CHOOSE i \in hits : TRUE])

\* Function.to_json
Function_to_json(f) ==
    [name |-> f.name,
     parameters |-> [i \in 1..Len(f.parameters) |-> Parameter_to_json(f.parameters[i])],
     expression |-> TextV(Str(f.expr)),
     resolution |-> f.resolution,
     start_x |-> f.start_x,
     end_x |-> f.end_x]

\* the loop of Function.from_json over data["parameters"]
RECURSIVE load_parameters(_, _, _)
load_parameters(obj, parameters, i) ==
    IF i > Len(parameters) THEN obj
    ELSE load_parameters(add_parameter(obj, Parameter_from_json(parameters[i])),
                         parameters, i + 1)

\* Function.from_json, called on Function
Function_from_json(data) ==
    Bind(construct(subclass_for(data.name)), LAMBDA o0 :
    Bind(expr_setter(o0, data.expression), LAMBDA o1 :
    Bind(resolution_setter([o1 EXCEPT !.name = data.name], data.resolution), LAMBDA o2 :
    Bind(start_x_setter(o2, data.start_x), LAMBDA o3 :
    Bind(end_x_setter(o3, data.end_x), LAMBDA o4 :
    Ok(load_parameters([o4 EXCEPT !.parameters = <<>>], data.parameters, 1)))))))

\* a numpy array of floats
ndarray(data) == [ty |-> "ndarray", data |-> data]

\* np.linspace(start, stop, n): n evenly spaced abscissas, the first at
\* start and the last at stop; a negative n raises ValueError
linspace(start, stop, n) ==
    IF n < 0 THEN Raise("ValueError")
    ELSE Ok(ndarray([k \in 1..n |->
             [ty |-> "float",
              n |-> IF n = 1 THEN start.n
                    ELSE start.n + ((k - 1) * (stop.n - start.n)) \div (n - 1)]]))

\* found_variables of Function.evaluate: symbol -> value, a later parameter
\* with the same symbol replacing an earlier one
found_variables(parameters) ==
    LET symbols == {parameters[i].symbol : i \in 1..Len(parameters)}
        last(s) == CHOOSE i \in 1..Len(parameters) :
                       /\ parameters[i].symbol = s
                       /\ \A j \in 1..Len(parameters) : parameters[j].symbol = s => j <= i
    IN  [s \in symbols |-> parameters[last(s)].value]

\* a sample count that includes both end points of the pulse
sample_count_inclusive(pulse_length, resolution) ==
    TruncDiv(pulse_length.n, resolution.n) + 1

\* the number of samples: n = int(pulse_length / resolution)
sample_count(pulse_length, resolution) ==
    TruncDiv(pulse_length.n, resolution.n)

\* np.full(t.shape, c)
full(t, c) == ndarray([k \in 1..Len(t.data) |-> c])

\* sympy.lambdify([x], final_expr, "numpy") applied to t: one sample per
\* abscissa when the expression depends on x; a constant expression gives
\* the bare constant, not an array; a symbol other than x left unbound
\* raises NameError
lambdified(final_expr, t) ==
    IF final_expr.free = {"x"}
    THEN Ok(ndarray([k \in 1..Len(t.data) |->
                     [ty |-> "float", f |-> final_expr.id, x |-> t.data[k].n]]))
    ELSE IF final_expr.free = {} THEN Ok(ExprFloat(final_expr))
    ELSE Raise("NameError")

\* Function.evaluate(pulse_length, resolution); resolution None means the
\* Function's own
evaluate(f, pulse_length, resolution) ==
    LET res == IF resolution = None THEN f.resolution ELSE resolution
        n == sample_count(pulse_length, res)
    IN  Bind(linspace(f.start_x, f.end_x, n), LAMBDA t :
        LET final_expr == Subs(f.expr, found_variables(f.parameters))
        IN  IF IsNumber(final_expr) THEN Ok(full(t, ExprFloat(final_expr)))
            ELSE lambdified(final_expr, t))

-----------------------------------------------------------------------------
(* class Option and its subclasses (pulseparameters.py).  A FunctionOption *)
(* holds its choices in functions and its value by reference: sel is the   *)
(* index of the choice that value is, or 0 when value is an object of its  *)
(* own (as after from_json).                                               *)

\* Option.__init__
Option_init(cls, name, value) == [cls |-> cls, name |-> name, value |-> value]

\* FunctionOption.__init__
FunctionOption_init(name, functions) ==
    [cls |-> "FunctionOption", name |-> name, value |-> functions[1],
     functions |-> functions, sel |-> 1]

\* the class attribute TYPE; the base class Option has none
OptionTYPE(cls) ==
    CASE cls = "BooleanOption" -> "Boolean"
      [] cls = "NumericOption" -> "Numeric"
      [] cls = "FunctionOption" -> "Function"
      [] OTHER -> ""

\* Option.__subclasses__(), in definition order
OptionSubclasses == <<"BooleanOption", "NumericOption", "FunctionOption">>

\* a set_value that stores its argument as it comes
Option_set_value_as_given(o, value) == Ok([o EXCEPT !.value = value])

\* BooleanOption.set_value, NumericOption.set_value, FunctionOption.set_value
\* with a value that is no choice of the option, Option.set_value
Option_set_value(o, value) ==
    CASE o.cls = "BooleanOption" -> Ok([o EXCEPT !.value = value])
      [] o.cls = "NumericOption" ->
            Bind(PyFloat(value), LAMBDA v : Ok([o EXCEPT !.value = v]))
      [] o.cls = "FunctionOption" -> Ok([o EXCEPT !.value = value, !.sel = 0])
      [] OTHER -> Raise("TypeError")

\* FunctionOption.set_value(self.functions[i])
FunctionOption_select(o, i) ==
    [o EXCEPT !.value = o.functions[i], !.sel = i]

\* parameter.set_value(value) on the k-th parameter of the held Function,
\* which is the selected choice itself when sel > 0
FunctionOption_set_parameter(o, k, value) ==
    LET f == [o.value EXCEPT !.parameters[k] = Parameter_set_value(@, value)]
    IN  IF o.sel > 0 THEN [o EXCEPT !.value = f, !.functions[o.sel] = f]
        ELSE [o EXCEPT !.value = f]

\* a lookup that answers the current value when no choice has the name
get_function_by_name_or_value(o, name) ==
    LET hits == {i \in 1..Len(o.functions) : o.functions[i].name = name}
    IN  IF hits = {} THEN Ok(o.value)
        ELSE Ok(o.functions[CHOOSE i \in hits : \A j \in hits : i <= j])

\* FunctionOption.get_function_by_name: the first choice of that name, else
\* ValueError("Function with name %s not found" % name)
get_function_by_name(o, name) ==
    LET hits == {i \in 1..Len(o.functions) : o.functions[i].name = name}
    IN  IF hits = {} THEN RaiseMsg("ValueError", "Function with name " \o name \o " not found")
        ELSE Ok(o.functions[CHOOSE i \in hits : \A j \in hits : i <= j])

\* Option.to_json, FunctionOption.to_json; reading self.TYPE of a plain
\* Option raises AttributeError
Option_to_json(o) ==
    CASE o.cls = "FunctionOption" ->
            Ok([name |-> o.name, value |-> Function_to_json(o.value),
                type |-> OptionTYPE(o.cls)])
      [] o.cls \in {"BooleanOption", "NumericOption"} ->
            Ok([name |-> o.name, value |-> o.value, type |-> OptionTYPE(o.cls)])
      [] OTHER -> Raise("AttributeError")

\* FunctionOption.from_json
FunctionOption_from_json(data) ==
    LET obj == FunctionOption_init(data.name, FunctionSubclasses)
    IN  Bind(Function_from_json(data.value), LAMBDA f :
        Ok([obj EXCEPT !.value = f, !.sel = 0]))

\* a dispatch that compares the tag with the class name instead of TYPE
option_subclass_for_class_name(type) ==
    LET hits == {i \in 1..Len(OptionSubclasses) : OptionSubclasses[i] = type}
    IN  IF hits = {} THEN "Option"
        ELSE OptionSubclasses[CHOOSE i \in hits : \A j \in hits : i <= j]

\* the subclass Option.from_json picks: the first whose TYPE equals the
\* tag, else the class from_json was called on, Option itself
option_subclass_for(type) ==
    LET hits == {i \in 1..Len(OptionSubclasses) : OptionTYPE(OptionSubclasses[i]) = type}
    IN  IF hits = {} THEN "Option"
        ELSE OptionSubclasses[CHOOSE i \in hits : \A j \in hits : i <= j]

\* Option.from_json, called on Option: a subclass with a from_json of its
\* own (FunctionOption) gets the data, any other class is built with
\* cls(name, value)
Option_from_json(data) ==
    LET cls == option_subclass_for(data.type)
    IN  IF cls = "FunctionOption" THEN FunctionOption_from_json(data)
        ELSE Ok(Option_init(cls, data.name, data.value))

-----------------------------------------------------------------------------
(* Pulse parameters (base_spectrometer_model.py, pulseparameters.py) *)

\* BaseSpectrometerModel.PulseParameter.__init__
PulseParameter_init(cls, name) == [cls |-> cls, name |-> name, options |-> <<>>]

\* BaseSpectrometerModel.PulseParameter.add_option
add_option(par, option) == [par EXCEPT !.options = Append(@, option)]

\* a lookup that answers None when no option has the name
get_option_by_name_or_none(p, name) ==
    LET hits == {i \in 1..Len(p.options) : p.options[i].name = name}
    IN  IF hits = {} THEN Ok(None)
        ELSE Ok(p.options[CHOOSE i \in hits : \A j \in hits : i <= j])

\* BaseSpectrometerModel.PulseParameter.get_option_by_name: the first option
\* of that name, else ValueError("Option with name %s not found" % name)
get_option_by_name(p, name) ==
    LET hits == {i \in 1..Len(p.options) : p.options[i].name = name}
    IN  IF hits = {} THEN RaiseMsg("ValueError", "Option with name " \o name \o " not found")
        ELSE Ok(p.options[CHOOSE i \in hits : \A j \in hits : i <= j])

\* TXPulse.__init__
TXPulse(name) ==
    add_option(
        add_option(
            add_option(PulseParameter_init("TXPulse", name),
                       Option_init("NumericOption", "Relative TX Amplitude", IntV(0))),
            Option_init("NumericOption", "TX Phase", IntV(0))),
        FunctionOption_init("TX Pulse Shape",
            <<RectFunction, SincFunction, GaussianFunction, CustomFunction>>))

\* RXReadout.__init__
RXReadout(name) ==
    add_option(PulseParameter_init("RXReadout", name),
               Option_init("BooleanOption", "RX", BoolV(FALSE)))

\* Gate.__init__
Gate(name) ==
    add_option(PulseParameter_init("Gate", name),
               Option_init("BooleanOption", "Gate State", BoolV(FALSE)))

\* Function.get_pixmap and its overrides in RectFunction, SincFunction and
\* GaussianFunction: the name of the icon of PulseParamters
Function_get_pixmap(f) ==
    CASE f.cls = "RectFunction" -> "TXRect"
      [] f.cls = "SincFunction" -> "TXSinc"
      [] f.cls = "GaussianFunction" -> "TXGauss"
      [] OTHER -> "TXCustom"

\* TXPulse.get_pixmap, RXReadout.get_pixmap, Gate.get_pixmap; comparing a
\* value that is no number with 0 raises TypeError, and value == False holds
\* for False, 0 and 0.0 alone
get_pixmap(p) ==
    CASE p.cls = "TXPulse" ->
            Bind(get_option_by_name(p, "Relative TX Amplitude"), LAMBDA amplitude :
                IF ~IsNumeric(amplitude.value) THEN Raise("TypeError")
                ELSE IF amplitude.value.n > 0
                THEN Bind(get_option_by_name(p, "TX Pulse Shape"), LAMBDA shape :
                         Ok(Function_get_pixmap(shape.value)))
                ELSE Ok("TXOff"))
      [] p.cls = "RXReadout" ->
            Bind(get_option_by_name(p, "RX"), LAMBDA rx :
                IF IsNumeric(rx.value) /\ rx.value.n = 0 THEN Ok("RXOff") ELSE Ok("RXOn"))
      [] p.cls = "Gate" ->
            Bind(get_option_by_name(p, "Gate State"), LAMBDA state :
                IF IsNumeric(state.value) /\ state.value.n = 0 THEN Ok("GateOff")
                ELSE Ok("GateOn"))
      [] OTHER -> Raise("NotImplementedError")

\* pulse_parameter_class(name) for a class of the registry
pulse_parameter_class(cls, name) ==
    CASE cls = "TXPulse" -> TXPulse(name)
      [] cls = "RXReadout" -> RXReadout(name)
      [] cls = "Gate" -> Gate(name)

-----------------------------------------------------------------------------
(* PulseSequence and PulseSequence.Event (pulsesequence.py).  An           *)
(* OrderedDict is a sequence of [key, val] entries with distinct keys; the *)
(* registry pulse_parameter_options is one from names to classes.          *)

\* the keys of an OrderedDict, in order
keys(od) == [i \in 1..Len(od) |-> od[i].key]

\* a mapping that puts a new key before the others
OD_set_front(od, key, val) ==
    IF \E i \in 1..Len(od) : od[i].key = key
    THEN [i \in 1..Len(od) |-> IF od[i].key = key THEN [key |-> key, val |-> val] ELSE od[i]]
    ELSE <<[key |-> key, val |-> val]>> \o od

\* od[key] = val: a new key goes to the end, an existing key keeps its place
OD_set(od, key, val) ==
    IF \E i \in 1..Len(od) : od[i].key = key
    THEN [i \in 1..Len(od) |-> IF od[i].key = key THEN [key |-> key, val |-> val] ELSE od[i]]
    ELSE Append(od, [key |-> key, val |-> val])

\* od[key]
OD_get(od, key) == od[CHOOSE i \in 1..Len(od) : od[i].key = key].val

\* PulseSequence.__init__
PulseSequence_init(name) == [name |-> name, events |-> <<>>]

\* PulseSequence.Event.__init__
Event_init(name, duration) ==
    [name |-> name, duration |-> duration, parameters |-> <<>>]

\* PulseSequence.Event.on_duration_changed
on_duration_changed(event, duration) == Ok([event EXCEPT !.duration = duration])

\* PulseSequence.Event.add_parameter: self.parameters is an OrderedDict,
\* which has no append
Event_add_parameter(event, parameter) == Raise("AttributeError")

\* the loop over parameter["value"] in load_event: each option is appended
\* to the options of the parameter stored under key
RECURSIVE load_options(_, _, _, _)
load_options(obj, key, value, i) ==
    IF i > Len(value) THEN Ok(obj)
    ELSE Bind(Option_from_json(value[i]), LAMBDA option :
         load_options(
             [obj EXCEPT !.parameters =
                 OD_set(@, key, add_option(OD_get(obj.parameters, key), option))],
             key, value, i + 1))

\* a fresh instance that keeps the options its constructor gave it
keep_options(p) == p

\* obj.parameters[pulse_parameter_option].options = []: the default options
\* of the fresh instance are deleted
discard_options(p) == [p EXCEPT !.options = <<>>]

\* a lookup that takes every serialized parameter for every key of the
\* registry
registered_always(pulse_parameter_option, parameter) == TRUE

\* the test of load_event: the key of the registry is the name of the
\* serialized parameter
registered(pulse_parameter_option, parameter) ==
    pulse_parameter_option = parameter.name

\* the body of the loop over pulse_parameter_options.keys() in load_event,
\* for one serialized parameter and the i-th key of the registry onward
RECURSIVE load_parameter(_, _, _, _)
load_parameter(obj, parameter, pulse_parameter_options, i) ==
    IF i > Len(pulse_parameter_options) THEN Ok(obj)
    ELSE LET pulse_parameter_option == pulse_parameter_options[i].key
         IN  IF registered(pulse_parameter_option, parameter)
             THEN LET fresh == pulse_parameter_class(pulse_parameter_options[i].val,
                                                     parameter.name)
                      o1 == [obj EXCEPT !.parameters =
                                OD_set(@, pulse_parameter_option,
                                       discard_options(fresh))]
                  IN  Bind(load_options(o1, pulse_parameter_option, parameter.value, 1),
                           LAMBDA o2 :
                           load_parameter(o2, parameter, pulse_parameter_options, i + 1))
             ELSE load_parameter(obj, parameter, pulse_parameter_options, i + 1)

\* the loop over event["parameters"] in load_event
RECURSIVE load_parameters_of_event(_, _, _, _)
load_parameters_of_event(obj, parameters, pulse_parameter_options, i) ==
    IF i > Len(parameters) THEN Ok(obj)
    ELSE Bind(load_parameter(obj, parameters[i], pulse_parameter_options, 1), LAMBDA o :
         load_parameters_of_event(o, parameters, pulse_parameter_options, i + 1))

\* PulseSequence.Event.load_event
load_event(event, pulse_parameter_options) ==
    load_parameters_of_event(Event_init(event.name, event.duration),
                             event.parameters, pulse_parameter_options, 1)

\* the options of one parameter, last option first
options_to_json_reversed(par) ==
    [i \in 1..Len(par.options) |->
        Option_to_json(par.options[Len(par.options) + 1 - i]).val]

\* the options of one parameter as to_json emits them, in order
options_to_json(par) ==
    [i \in 1..Len(par.options) |-> Option_to_json(par.options[i]).val]

\* the entries of one event's parameters as to_json emits them, in the
\* order of event.parameters.keys()
parameters_to_json(event) ==
    [i \in 1..Len(event.parameters) |->
        [name |-> event.parameters[i].key,
         value |-> options_to_json(event.parameters[i].val)]]

\* PulseSequence.to_json
to_json(self) ==
    [name |-> self.name,
     events |-> [i \in 1..Len(self.events) |->
                    [name |-> self.events[i].name,
                     duration |-> self.events[i].duration,
                     parameters |-> parameters_to_json(self.events[i])]]]

\* the loop over sequence["events"] in load_sequence
RECURSIVE load_events(_, _, _, _)
load_events(obj, events, pulse_parameter_options, i) ==
    IF i > Len(events) THEN Ok(obj)
    ELSE Bind(load_event(events[i], pulse_parameter_options), LAMBDA e :
         load_events([obj EXCEPT !.events = Append(@, e)], events,
                     pulse_parameter_options, i + 1))

\* PulseSequence.load_sequence
load_sequence(sequence, pulse_parameter_options) ==
    load_events(PulseSequence_init(sequence.name), sequence.events,
                pulse_parameter_options, 1)

-----------------------------------------------------------------------------
(* Spec: a PulseSequence is built and edited, serialized with to_json, and *)
(* read back with load_sequence under a registry.                          *)

MaxEvents == 2
MaxEdits == 2

\* the i-th event the editor appends: its name and duration
EventNames == <<"excite", "readout">>
EventInput(i) ==
    [name |-> EventNames[((i - 1) % Len(EventNames)) + 1], duration |-> FloatV(10 * i)]

\* values handed to set_value on the options and Function parameters of a
\* sequence
SequenceNumericValues == {FloatV(2)}
SequenceBooleanValues == {BoolV(TRUE)}
SequenceParameterValues == {IntV(3)}

\* pulse_parameter_options of the spectrometer the sequence is edited for
PulseParameterOptions ==
    <<[key |-> "TX", val |-> "TXPulse"], [key |-> "RX", val |-> "RXReadout"]>>

\* the registries load_sequence is called with: PulseParameterOptions
\* without some of its keys
Registries ==
    {SelectSeq(PulseParameterOptions, LAMBDA entry : entry.key \in K) :
        K \in SUBSET {PulseParameterOptions[i].key : i \in 1..Len(PulseParameterOptions)}}

NoRegistry == <<>>

IdleSequence ==
    /\ seq = None
    /\ edits = 0
    /\ seqData = None
    /\ seqRegistry = NoRegistry
    /\ seqLoaded = None
    /\ pc = "idle"

NoFile == [name |-> "", events |-> <<>>]

IdleFile ==
    /\ file = NoFile
    /\ fileRegistry = NoRegistry
    /\ fileLoaded = None

NoCallYet == [method |-> "", arg |-> None, self |-> None]

IdleEvent ==
    /\ ev = None
    /\ evCall = NoCallYet
    /\ evResult = None

IdleParameter ==
    /\ pulsePar = None
    /\ pulseParCall = NoCallYet
    /\ pulseParResult = None

IdleSetting ==
    /\ setting = None
    /\ settingCall = NoCallYet
    /\ settingResult = None

IdleMenu ==
    /\ spectrometerModel = None
    /\ spectrometerView = None
    /\ menuPc = "idle"
    /\ menuCall = NoCallYet
    /\ menuResult = None

IdleController ==
    /\ moduleSettings = <<>>
    /\ settingsFile = <<>>
    /\ loadResult = None

IdleHeap ==
    /\ heap = <<>>
    /\ roots = <<0, 0>>
    /\ heapData = None
    /\ heapEdits = 0
    /\ heapCall = NoCallYet

-----------------------------------------------------------------------------
(* SpecOption: one Option object, as the constructors of TXPulse, RXReadout *)
(* and Gate build it, is edited, serialized and deserialized.               *)

\* values handed to Function.Parameter.set_value
ParameterValues == {IntV(0), IntV(3)}

\* values handed to NumericOption.set_value and BooleanOption.set_value
NumericValues == {IntV(1), FloatV(2), TextV("3.5"), TextV("abc"), None}
BooleanValues == {BoolV(TRUE), BoolV(FALSE)}

\* arguments handed to BooleanOption.set_value: booleans, a number, an
\* empty text and None
BooleanArguments == BooleanValues \cup {IntV(1), TextV(""), None}

\* the options the pulse parameter constructors create
ConstructedOptions ==
    {TXPulse("TX").options[i] : i \in 1..3}
        \cup {RXReadout("RX").options[1], Gate("Gate").options[1]}

\* serialized Options that no to_json call produced: type tags of no Option
\* subclass, and a Function option naming an unknown Function
EditedOptionData ==
    LET base == {Option_to_json(o).val : o \in ConstructedOptions}
    IN  UNION {{[d EXCEPT !.type = "Enum"], [d EXCEPT !.type = "boolean"]} : d \in base}
        \cup {[d EXCEPT !.value.name = "Triangle"] : d \in {b \in base : b.type = "Function"}}

IdleOption ==
    /\ opt = None
    /\ optData = None
    /\ optLoaded = None
    /\ optCall = NoCallYet
    /\ optResult = None

\* opt.set_value(value) on a Boolean or Numeric option
OptionSetValue(value) ==
    /\ \/ opt.cls = "BooleanOption" /\ value \in BooleanArguments
       \/ opt.cls = "NumericOption" /\ value \in NumericValues
    /\ LET r == Option_set_value(opt, value)
       IN  /\ opt' = IF r.ok THEN r.val ELSE opt
           /\ optResult' = IF r.ok THEN Ok(None) ELSE r
    /\ optCall' = [method |-> "set_value", arg |-> value, self |-> opt]
    /\ UNCHANGED <<optData, optLoaded, notOptVars>>

\* opt.set_value(opt.functions[i]) on a Function option
OptionSelectFunction(i) ==
    /\ opt.cls = "FunctionOption"
    /\ i \in 1..Len(opt.functions)
    /\ opt' = FunctionOption_select(opt, i)
    /\ optCall' = [method |-> "set_value", arg |-> opt.functions[i], self |-> opt]
    /\ optResult' = Ok(None)
    /\ UNCHANGED <<optData, optLoaded, notOptVars>>

\* opt.value.parameters[k].set_value(value) on a Function option
OptionParameterSetValue(k, value) ==
    /\ opt.cls = "FunctionOption"
    /\ k \in 1..Len(opt.value.parameters)
    /\ opt' = FunctionOption_set_parameter(opt, k, value)
    /\ optCall' = [method |-> "value.parameters.set_value", arg |-> value, self |-> opt]
    /\ optResult' = Ok(None)
    /\ UNCHANGED <<optData, optLoaded, notOptVars>>

\* names handed to get_function_by_name
FunctionNames == {"Rectangular", "Sinc", "Gaussian", "Custom", "Triangle"}

\* opt.get_function_by_name(name) on a Function option
OptionGetFunctionByName(name) ==
    /\ opt.cls = "FunctionOption"
    /\ optResult' = get_function_by_name(opt, name)
    /\ optCall' = [method |-> "get_function_by_name", arg |-> TextV(name), self |-> opt]
    /\ UNCHANGED <<opt, optData, optLoaded, notOptVars>>

\* Option.from_json(opt.to_json())
OptionRoundTrip ==
    /\ optData' = Option_to_json(opt).val
    /\ optLoaded' = Option_from_json(optData')
    /\ UNCHANGED <<opt, optCall, optResult, notOptVars>>

\* Option.from_json(data) on serialized data from elsewhere
OptionFromJson(data) ==
    /\ optData' = data
    /\ optLoaded' = Option_from_json(data)
    /\ UNCHANGED <<opt, optCall, optResult, notOptVars>>

-----------------------------------------------------------------------------
(* SpecFunction: one Function object is edited, serialized, deserialized   *)
(* and evaluated.                                                          *)

MaxPulseLength == 5
MaxResolution == 3

\* pulse lengths and resolutions handed to evaluate, in ticks
PulseLengths == {DecimalV(k) : k \in 0..MaxPulseLength}
Resolutions == {None} \cup {DecimalV(k) : k \in 1..MaxResolution}

\* serialized Functions that no to_json call produced: an unknown name (the
\* commented-out Triangle shape), another valid expression, malformed
\* expression text, expressions that are no text, and domains whose start
\* is the end or lies behind it
EditedFunctionData ==
    LET base == {Function_to_json(FunctionSubclasses[i]) : i \in 1..Len(FunctionSubclasses)}
    IN  UNION {{[d EXCEPT !.name = "Triangle"],
                [d EXCEPT !.expression = TextV("1")],
                [d EXCEPT !.expression = TextV("sin(x * l")],
                [d EXCEPT !.expression = IntV(7)],
                [d EXCEPT !.expression = None],
                [d EXCEPT !.start_x = d.end_x],
                [d EXCEPT !.end_x = FloatV(-4)]} : d \in base}

\* expressions handed to the constructor Function(expr)
ConstructorExpressions ==
    {TextV("2*x**2 + 3*x + 1"), TextV("sin(x * l"), Expr("one"), IntV(7), None}

NoCall == [f |-> None, pulse_length |-> None, resolution |-> None]

InitFunction ==
    /\ IdleOption
    /\ IdleSequence
    /\ IdleFile
    /\ IdleEvent
    /\ IdleParameter
    /\ IdleSetting
    /\ fn \in {FunctionSubclasses[i] : i \in 1..Len(FunctionSubclasses)}
    /\ fnData = None
    /\ fnLoaded = None
    /\ fnCall = NoCall
    /\ samples = None
    /\ IdleMenu
    /\ IdleController
    /\ IdleHeap

\* parameter.set_value(value) on the k-th parameter of the Function
ParameterSetValue(k, value) ==
    /\ k \in 1..Len(fn.parameters)
    /\ fn' = [fn EXCEPT !.parameters[k] = Parameter_set_value(@, value)]
    /\ UNCHANGED <<fnData, fnLoaded, fnCall, samples, notFnVars>>

\* Function.from_json(fn.to_json())
FunctionRoundTrip ==
    /\ fnData' = Function_to_json(fn)
    /\ fnLoaded' = Function_from_json(fnData')
    /\ UNCHANGED <<fn, fnCall, samples, notFnVars>>

\* Function.from_json(data) on serialized data from elsewhere
FunctionFromJson(data) ==
    /\ fnData' = data
    /\ fnLoaded' = Function_from_json(data)
    /\ UNCHANGED <<fn, fnCall, samples, notFnVars>>

\* Function(expr): the base class constructor
FunctionConstruct(expr) ==
    /\ fnData' = [ctor |-> "Function", expression |-> expr]
    /\ fnLoaded' = Function_init("Function", "", expr)
    /\ UNCHANGED <<fn, fnCall, samples, notFnVars>>

\* fn.evaluate(pulse_length, resolution)
Evaluate(pulse_length, resolution) ==
    /\ fnCall' = [f |-> fn, pulse_length |-> pulse_length, resolution |-> resolution]
    /\ samples' = evaluate(fn, pulse_length, resolution)
    /\ UNCHANGED <<fn, fnData, fnLoaded, notFnVars>>

NextFunction ==
    \/ \E k \in 1..2, value \in ParameterValues : ParameterSetValue(k, value)
    \/ FunctionRoundTrip
    \/ \E data \in EditedFunctionData : FunctionFromJson(data)
    \/ \E expr \in ConstructorExpressions : FunctionConstruct(expr)
    \/ \E pulse_length \in PulseLengths, resolution \in Resolutions :
           Evaluate(pulse_length, resolution)

SpecFunction == InitFunction /\ [][NextFunction]_vars

IdleFunction ==
    /\ fn = None
    /\ fnData = None
    /\ fnLoaded = None
    /\ fnCall = NoCall
    /\ samples = None

InitOption ==
    /\ opt \in ConstructedOptions
    /\ optData = None
    /\ optLoaded = None
    /\ optCall = NoCallYet
    /\ optResult = None
    /\ IdleFunction
    /\ IdleSequence
    /\ IdleFile
    /\ IdleEvent
    /\ IdleParameter
    /\ IdleSetting
    /\ IdleMenu
    /\ IdleController
    /\ IdleHeap

NextOption ==
    \/ \E value \in NumericValues \cup BooleanArguments : OptionSetValue(value)
    \/ \E i \in 1..4 : OptionSelectFunction(i)
    \/ \E k \in 1..2, value \in ParameterValues : OptionParameterSetValue(k, value)
    \/ \E name \in FunctionNames : OptionGetFunctionByName(name)
    \/ OptionRoundTrip
    \/ \E data \in EditedOptionData : OptionFromJson(data)

SpecOption == InitOption /\ [][NextOption]_vars

-----------------------------------------------------------------------------
(* Spec: the actions on a PulseSequence *)

Init ==
    /\ seq = PulseSequence_init("spin-echo")
    /\ edits = 0
    /\ seqData = None
    /\ seqRegistry = NoRegistry
    /\ seqLoaded = None
    /\ pc = "edit"
    /\ IdleOption
    /\ IdleFunction
    /\ IdleFile
    /\ IdleEvent
    /\ IdleParameter
    /\ IdleSetting
    /\ IdleMenu
    /\ IdleController
    /\ IdleHeap

\* sequence.events.append(Event(name, duration))
AppendEvent ==
    /\ pc = "edit"
    /\ Len(seq.events) < MaxEvents
    /\ LET input == EventInput(Len(seq.events) + 1)
       IN  seq' = [seq EXCEPT !.events =
                      Append(@, Event_init(input.name, input.duration))]
    /\ UNCHANGED <<edits, seqData, seqRegistry, seqLoaded, pc, notSeqVars>>

\* event.parameters[key] = pulse_parameter_class(key) for the i-th entry of
\* pulse_parameter_options, on the e-th event
SetParameter(e, i) ==
    /\ pc = "edit"
    /\ e \in 1..Len(seq.events)
    /\ seq' = [seq EXCEPT !.events[e].parameters =
                       OD_set(@, PulseParameterOptions[i].key,
                              pulse_parameter_class(PulseParameterOptions[i].val,
                                                    PulseParameterOptions[i].key))]
    /\ UNCHANGED <<edits, seqData, seqRegistry, seqLoaded, pc, notSeqVars>>

\* option.set_value(value) on the o-th option of the p-th parameter of the
\* e-th event, a Boolean or Numeric option
SequenceOptionSetValue(e, p, o, value) ==
    /\ pc = "edit"
    /\ edits < MaxEdits
    /\ e \in 1..Len(seq.events)
    /\ p \in 1..Len(seq.events[e].parameters)
    /\ o \in 1..Len(seq.events[e].parameters[p].val.options)
    /\ LET option == seq.events[e].parameters[p].val.options[o]
       IN  /\ \/ option.cls = "BooleanOption" /\ value \in SequenceBooleanValues
              \/ option.cls = "NumericOption" /\ value \in SequenceNumericValues
           /\ seq' = [seq EXCEPT !.events[e].parameters[p].val.options[o] =
                              Option_set_value(option, value).val]
    /\ edits' = edits + 1
    /\ UNCHANGED <<seqData, seqRegistry, seqLoaded, pc, notSeqVars>>

\* option.set_value(option.functions[i]) on a Function option
SequenceSelectFunction(e, p, o, i) ==
    /\ pc = "edit"
    /\ edits < MaxEdits
    /\ e \in 1..Len(seq.events)
    /\ p \in 1..Len(seq.events[e].parameters)
    /\ o \in 1..Len(seq.events[e].parameters[p].val.options)
    /\ LET option == seq.events[e].parameters[p].val.options[o]
       IN  /\ option.cls = "FunctionOption"
           /\ i \in 1..Len(option.functions)
           /\ seq' = [seq EXCEPT !.events[e].parameters[p].val.options[o] =
                              FunctionOption_select(option, i)]
    /\ edits' = edits + 1
    /\ UNCHANGED <<seqData, seqRegistry, seqLoaded, pc, notSeqVars>>

\* option.value.parameters[k].set_value(value) on a Function option
SequenceParameterSetValue(e, p, o, k, value) ==
    /\ pc = "edit"
    /\ edits < MaxEdits
    /\ e \in 1..Len(seq.events)
    /\ p \in 1..Len(seq.events[e].parameters)
    /\ o \in 1..Len(seq.events[e].parameters[p].val.options)
    /\ LET option == seq.events[e].parameters[p].val.options[o]
       IN  /\ option.cls = "FunctionOption"
           /\ k \in 1..Len(option.value.parameters)
           /\ seq' = [seq EXCEPT !.events[e].parameters[p].val.options[o] =
                              FunctionOption_set_parameter(option, k, value)]
    /\ edits' = edits + 1
    /\ UNCHANGED <<seqData, seqRegistry, seqLoaded, pc, notSeqVars>>

\* a to_json that takes the events off the sequence while it writes them
ToJson_draining ==
    /\ pc \in {"edit", "dumped"}
    /\ seqData' = to_json(seq)
    /\ seq' = [seq EXCEPT !.events = <<>>]
    /\ pc' = "dumped"
    /\ UNCHANGED <<edits, seqRegistry, seqLoaded, notSeqVars>>

\* data = sequence.to_json(), a first time or once more: to_json reads the
\* sequence and assigns to nothing but the structure it returns
ToJson ==
    /\ pc \in {"edit", "dumped"}
    /\ seqData' = to_json(seq)
    /\ pc' = "dumped"
    /\ UNCHANGED <<seq, edits, seqRegistry, seqLoaded, notSeqVars>>

\* PulseSequence.load_sequence(data, pulse_parameter_options): load_sequence
\* and load_event read data and the registry and assign to the new objects
\* only
LoadSequence(pulse_parameter_options) ==
    /\ pc = "dumped"
    /\ seqRegistry' = pulse_parameter_options
    /\ seqLoaded' = load_sequence(seqData, pulse_parameter_options)
    /\ pc' = "loaded"
    /\ UNCHANGED <<seq, edits, seqData, notSeqVars>>

Next ==
    \/ AppendEvent
    \/ \E e \in 1..MaxEvents, i \in 1..Len(PulseParameterOptions) : SetParameter(e, i)
    \/ \E e \in 1..MaxEvents, p \in 1..2, o \in 1..3,
          value \in SequenceNumericValues \cup SequenceBooleanValues :
           SequenceOptionSetValue(e, p, o, value)
    \/ \E e \in 1..MaxEvents, p \in 1..2, o \in 1..3, i \in 1..4 :
           SequenceSelectFunction(e, p, o, i)
    \/ \E e \in 1..MaxEvents, p \in 1..2, o \in 1..3, k \in 1..2,
          value \in SequenceParameterValues :
           SequenceParameterSetValue(e, p, o, k, value)
    \/ ToJson
    \/ \E pulse_parameter_options \in Registries : LoadSequence(pulse_parameter_options)

Spec == Init /\ [][Next]_vars

-----------------------------------------------------------------------------
(* SpecLoad: a sequence file is written event by event and entry by entry, *)
(* with entries of this spectrometer and of another one, and is read with  *)
(* load_sequence under a registry.                                         *)

MaxFileEntries == 2

\* the entry to_json emits for a pulse parameter stored under its name
EntryOf(par) == [name |-> par.name, value |-> options_to_json(par)]

\* a TXPulse whose amplitude was set to 2.0 and whose shape is a Sinc with
\* scale factor 3
EditedTXPulse ==
    LET par == TXPulse("TX")
    IN  [par EXCEPT
            !.options[1] = Option_set_value(@, FloatV(2)).val,
            !.options[3] = FunctionOption_set_parameter(
                               FunctionOption_select(@, 2), 1, IntV(3))]

\* a parameter entry of a sequence written for another spectrometer: its name
\* is a key of no registry, and its option holds a Function of a shape this
\* program has no class for
ForeignParameter ==
    [name |-> "Lock",
     value |-> <<[name |-> "Lock Shape", type |-> "Function",
                  value |-> [Function_to_json(RectFunction) EXCEPT !.name = "Triangle"]]>>]

\* a transmit pulse entry that stores the phase option alone
ShortTXEntry ==
    [name |-> "TX", value |-> <<Option_to_json(TXPulse("TX").options[2]).val>>]

\* a readout entry that stores a gate option after its own option
LongRXEntry ==
    [name |-> "RX",
     value |-> <<Option_to_json(Option_init("BooleanOption", "RX", BoolV(TRUE))).val,
                 Option_to_json(Gate("Gate").options[1]).val>>]

\* the parameter entries a file is written from
FileEntries ==
    {EntryOf(TXPulse("TX")), EntryOf(EditedTXPulse), EntryOf(RXReadout("RX")),
     ForeignParameter, ShortTXEntry, LongRXEntry}

\* the number of parameter entries in the first i events of a file
RECURSIVE EntryCount(_, _)
EntryCount(data, i) ==
    IF i = 0 THEN 0
    ELSE EntryCount(data, i - 1) + Len(data.events[i].parameters)

InitLoad ==
    /\ file = [name |-> "spin-echo", events |-> <<>>]
    /\ fileRegistry = NoRegistry
    /\ fileLoaded = None
    /\ IdleSequence
    /\ IdleOption
    /\ IdleFunction
    /\ IdleEvent
    /\ IdleParameter
    /\ IdleSetting
    /\ IdleMenu
    /\ IdleController
    /\ IdleHeap

\* an event without parameters is added to the events of the file
FileAppendEvent ==
    /\ fileLoaded = None
    /\ Len(file.events) < MaxEvents
    /\ LET input == EventInput(Len(file.events) + 1)
       IN  file' = [file EXCEPT !.events =
                       Append(@, [name |-> input.name, duration |-> input.duration,
                                  parameters |-> <<>>])]
    /\ UNCHANGED <<fileRegistry, fileLoaded, notFileVars>>

\* a parameter entry is added to the parameters of the e-th event of the file
FileAppendEntry(e, entry) ==
    /\ fileLoaded = None
    /\ e \in 1..Len(file.events)
    /\ EntryCount(file, Len(file.events)) < MaxFileEntries
    /\ file' = [file EXCEPT !.events[e].parameters = Append(@, entry)]
    /\ UNCHANGED <<fileRegistry, fileLoaded, notFileVars>>

\* PulseSequence.load_sequence(file, pulse_parameter_options)
FileLoad(pulse_parameter_options) ==
    /\ fileLoaded = None
    /\ fileRegistry' = pulse_parameter_options
    /\ fileLoaded' = load_sequence(file, pulse_parameter_options)
    /\ UNCHANGED <<file, notFileVars>>

NextLoad ==
    \/ FileAppendEvent
    \/ \E e \in 1..MaxEvents, entry \in FileEntries : FileAppendEntry(e, entry)
    \/ \E pulse_parameter_options \in Registries : FileLoad(pulse_parameter_options)

SpecLoad == InitLoad /\ [][NextLoad]_vars

-----------------------------------------------------------------------------
(* SpecEvent: one Event, as the sequence editor creates it, receives       *)
(* duration changes and pulse parameters.                                  *)

\* durations handed to on_duration_changed
Durations == {FloatV(5), IntV(0), FloatV(-1)}

InitEvent ==
    /\ \E i \in 1..Len(EventNames) :
           ev = Event_init(EventInput(i).name, EventInput(i).duration)
    /\ evCall = NoCallYet
    /\ evResult = None
    /\ IdleSequence
    /\ IdleFile
    /\ IdleOption
    /\ IdleFunction
    /\ IdleParameter
    /\ IdleSetting
    /\ IdleMenu
    /\ IdleController
    /\ IdleHeap

\* ev.on_duration_changed(duration)
EventDurationChanged(duration) ==
    /\ LET r == on_duration_changed(ev, duration)
       IN  /\ ev' = IF r.ok THEN r.val ELSE ev
           /\ evResult' = IF r.ok THEN Ok(None) ELSE r
    /\ evCall' = [method |-> "on_duration_changed", arg |-> duration, self |-> ev]
    /\ UNCHANGED notEvVars

\* ev.parameters[key] = pulse_parameter_class(key) for the i-th entry of
\* pulse_parameter_options
EventSetParameter(i) ==
    /\ ev' = [ev EXCEPT !.parameters =
                  OD_set(@, PulseParameterOptions[i].key,
                         pulse_parameter_class(PulseParameterOptions[i].val,
                                               PulseParameterOptions[i].key))]
    /\ evCall' = [method |-> "parameters.__setitem__",
                  arg |-> TextV(PulseParameterOptions[i].key), self |-> ev]
    /\ evResult' = Ok(None)
    /\ UNCHANGED notEvVars

\* ev.add_parameter(pulse_parameter_class(key)) for the i-th entry of
\* pulse_parameter_options
EventAddParameter(i) ==
    /\ LET r == Event_add_parameter(ev,
                    pulse_parameter_class(PulseParameterOptions[i].val,
                                          PulseParameterOptions[i].key))
       IN  /\ ev' = IF r.ok THEN r.val ELSE ev
           /\ evResult' = IF r.ok THEN Ok(None) ELSE r
    /\ evCall' = [method |-> "add_parameter",
                  arg |-> TextV(PulseParameterOptions[i].key), self |-> ev]
    /\ UNCHANGED notEvVars

NextEvent ==
    \/ \E duration \in Durations : EventDurationChanged(duration)
    \/ \E i \in 1..Len(PulseParameterOptions) : EventSetParameter(i)
    \/ \E i \in 1..Len(PulseParameterOptions) : EventAddParameter(i)

SpecEvent == InitEvent /\ [][NextEvent]_vars

-----------------------------------------------------------------------------
(* SpecParameter: one pulse parameter, as its constructor builds it, gets  *)
(* further options, has its options set and looked up by name.             *)

MaxOptions == 4

\* options handed to add_option after construction
AddedOptions ==
    {Option_init("NumericOption", "Relative TX Amplitude", IntV(7)),
     Option_init("BooleanOption", "Level", BoolV(TRUE))}

\* amplitudes and phases handed to NumericOption.set_value
AmplitudeValues == {FloatV(2), FloatV(-1), IntV(0)}

\* names handed to get_option_by_name
OptionNames ==
    {"Relative TX Amplitude", "TX Phase", "TX Pulse Shape", "RX", "Gate State",
     "Level", "Amplitude"}

InitParameter ==
    /\ pulsePar \in {TXPulse("TX"), RXReadout("RX"), Gate("Gate")}
    /\ pulseParCall = NoCallYet
    /\ pulseParResult = None
    /\ IdleSequence
    /\ IdleFile
    /\ IdleOption
    /\ IdleFunction
    /\ IdleEvent
    /\ IdleSetting
    /\ IdleMenu
    /\ IdleController
    /\ IdleHeap

\* pulsePar.add_option(option)
ParameterAddOption(option) ==
    /\ Len(pulsePar.options) < MaxOptions
    /\ pulsePar' = add_option(pulsePar, option)
    /\ pulseParCall' = [method |-> "add_option", arg |-> option, self |-> pulsePar]
    /\ pulseParResult' = Ok(None)
    /\ UNCHANGED notParVars

\* pulsePar.options[o].set_value(value) on a Boolean or Numeric option
ParameterOptionSetValue(o, value) ==
    /\ o \in 1..Len(pulsePar.options)
    /\ \/ pulsePar.options[o].cls = "BooleanOption" /\ value \in SequenceBooleanValues
       \/ pulsePar.options[o].cls = "NumericOption" /\ value \in AmplitudeValues
    /\ LET r == Option_set_value(pulsePar.options[o], value)
       IN  /\ pulsePar' = IF r.ok THEN [pulsePar EXCEPT !.options[o] = r.val]
                          ELSE pulsePar
           /\ pulseParResult' = IF r.ok THEN Ok(None) ELSE r
    /\ pulseParCall' = [method |-> "options.set_value", arg |-> value, self |-> pulsePar]
    /\ UNCHANGED notParVars

\* pulsePar.options[o].set_value(option.functions[i]) on a Function option
ParameterSelectFunction(o, i) ==
    /\ o \in 1..Len(pulsePar.options)
    /\ pulsePar.options[o].cls = "FunctionOption"
    /\ i \in 1..Len(pulsePar.options[o].functions)
    /\ pulsePar' = [pulsePar EXCEPT !.options[o] = FunctionOption_select(@, i)]
    /\ pulseParCall' = [method |-> "options.set_value",
                        arg |-> pulsePar.options[o].functions[i], self |-> pulsePar]
    /\ pulseParResult' = Ok(None)
    /\ UNCHANGED notParVars

\* pulsePar.get_option_by_name(name)
ParameterGetOptionByName(name) ==
    /\ pulseParResult' = get_option_by_name(pulsePar, name)
    /\ pulseParCall' = [method |-> "get_option_by_name", arg |-> TextV(name),
                        self |-> pulsePar]
    /\ UNCHANGED <<pulsePar, notParVars>>

NextParameter ==
    \/ \E option \in AddedOptions : ParameterAddOption(option)
    \/ \E o \in 1..MaxOptions, value \in SequenceBooleanValues \cup AmplitudeValues :
           ParameterOptionSetValue(o, value)
    \/ \E o \in 1..MaxOptions, i \in 1..4 : ParameterSelectFunction(o, i)
    \/ \E name \in OptionNames : ParameterGetOptionByName(name)

SpecParameter == InitParameter /\ [][NextParameter]_vars

-----------------------------------------------------------------------------
(* Settings (settings.py) and visual settings (visual_settings.py).  A     *)
(* setting is [cls, name, value] (a SelectionSetting also has options).    *)
(* The outcome of a request is [ok, val, stored, emitted]: the setting     *)
(* after it, whether the value setter assigned the value, and how many     *)
(* times settings_changed was emitted (with err when an exception left     *)
(* the request).                                                           *)

\* what the validators of the line edits answer for a text:
\* DuckFloatValidator.validate and DuckIntValidator.validate
ValidatorTable ==
    <<[text |-> "3.5", float |-> "Acceptable", int |-> "Invalid"],
      [text |-> "7", float |-> "Acceptable", int |-> "Acceptable"],
      [text |-> "", float |-> "Intermediate", int |-> "Intermediate"],
      [text |-> "abc", float |-> "Invalid", int |-> "Invalid"]>>

\* the numbers float() reads from the texts the validators accept
AcceptedNumber(text) == IF text = "3.5" THEN 3500 ELSE 7000

validate(kind, text) ==
    IF \E i \in 1..Len(ValidatorTable) : ValidatorTable[i].text = text
    THEN LET row == ValidatorTable[CHOOSE i \in 1..Len(ValidatorTable) :
                                      ValidatorTable[i].text = text]
         IN  IF kind = "float" THEN row.float ELSE row.int
    ELSE "Invalid"

\* float(text) and int(float(text)) for the texts above
SettingFloat(value) ==
    IF value.ty = "str"
    THEN IF validate("float", value.s) = "Acceptable"
         THEN Ok([ty |-> "float", n |-> AcceptedNumber(value.s)])
         ELSE Raise("ValueError")
    ELSE PyFloat(value)

SettingInt(value) ==
    Bind(SettingFloat(value), LAMBDA f :
         Ok([ty |-> "int", n |-> TruncDiv(f.n, 1000) * 1000]))

\* bool(value)
PyBool(value) ==
    IF value.ty = "str" THEN BoolV(value.s # "")
    ELSE IF value.ty = "NoneType" THEN BoolV(FALSE)
    ELSE BoolV(value.n # 0)

\* ipaddress.ip_address(value) accepts the text
ValidAddresses == {"192.168.1.7", "::1"}

Stored(s, emitted) == [ok |-> TRUE, val |-> s, stored |-> TRUE, emitted |-> emitted]
NotStored(s) == [ok |-> TRUE, val |-> s, stored |-> FALSE, emitted |-> 0]
Failed(s, err) == [ok |-> FALSE, err |-> err, val |-> s, stored |-> FALSE, emitted |-> 0]

\* the value setters of FloatSetting, IntSetting, BooleanSetting,
\* SelectionSetting, IPSetting and StringSetting, once the object is built;
\* Setting itself has a plain attribute
Setting_value_setter(s, value) ==
    CASE s.cls = "FloatSetting" ->
            IF validate("float", value.s) = "Acceptable"
            THEN LET r == SettingFloat(value)
                 IN  IF r.ok THEN Stored([s EXCEPT !.value = r.val], 1)
                     ELSE Failed(s, "ValueError")
            ELSE NotStored(s)
      [] s.cls = "IntSetting" ->
            IF validate("int", value.s) = "Acceptable"
            THEN LET r == SettingInt(value)
                 IN  IF r.ok THEN Stored([s EXCEPT !.value = r.val], 1)
                     ELSE Failed(s, "ValueError")
            ELSE NotStored(s)
      [] s.cls = "BooleanSetting" -> Stored([s EXCEPT !.value = PyBool(value)], 1)
      [] s.cls = "SelectionSetting" ->
            IF \E i \in 1..Len(s.options) : s.options[i] = value
            THEN Stored([s EXCEPT !.value = value], 1)
            ELSE Failed(s, "ValueError")
      [] s.cls = "IPSetting" ->
            IF value.s \in ValidAddresses
            THEN Stored([s EXCEPT !.value = value], 1)
            ELSE Failed(s, "ValueError")
      [] s.cls = "StringSetting" -> Stored([s EXCEPT !.value = value], 1)
      [] OTHER -> Stored([s EXCEPT !.value = value], 0)

\* Setting.on_value_changed: self.value = value, then settings_changed.emit()
Setting_on_value_changed(s, value) ==
    LET r == Setting_value_setter(s, value)
    IN  IF r.ok THEN [r EXCEPT !.emitted = @ + 1] ELSE r

\* the value setters of VisualFloatSetting and VisualIntSetting: the value
\* goes to the wrapped setting, settings_changed is emitted, the widget
\* shows the value
Visual_value_setter(s, value) ==
    CASE s.cls = "VisualFloatSetting" ->
            LET r == SettingFloat(value)
            IN  IF r.ok THEN Stored([s EXCEPT !.value = r.val], 1)
                ELSE [Failed([s EXCEPT !.value = value], "ValueError")
                         EXCEPT !.stored = TRUE, !.emitted = 1]
      [] s.cls = "VisualIntSetting" ->
            LET r == SettingInt(value)
            IN  IF r.ok THEN Stored([s EXCEPT !.value = r.val], 1)
                ELSE Failed(s, "ValueError")

\* VisualFloatSetting.on_state_updated, VisualIntSetting.on_state_updated
on_state_updated(s, state, text) ==
    IF state
    THEN LET r == Visual_value_setter(s, text)
         IN  IF r.ok THEN [r EXCEPT !.emitted = @ + 1] ELSE r
    ELSE NotStored(s)

-----------------------------------------------------------------------------
(* SpecSetting: one setting of a spectrometer receives value-change        *)
(* requests from its widget.                                               *)

\* the settings after construction
ConstructedSettings ==
    {[cls |-> "Setting", name |-> "Frequency", value |-> TextV("7")],
     [cls |-> "FloatSetting", name |-> "Gain", value |-> FloatV(1)],
     [cls |-> "IntSetting", name |-> "Averages", value |-> IntV(1)],
     [cls |-> "BooleanSetting", name |-> "Gate", value |-> BoolV(FALSE)],
     [cls |-> "SelectionSetting", name |-> "Channel", value |-> TextV("RX1"),
      options |-> <<TextV("RX1"), TextV("RX2")>>],
     [cls |-> "IPSetting", name |-> "Address", value |-> TextV("::1")],
     [cls |-> "StringSetting", name |-> "Label", value |-> TextV("")],
     [cls |-> "VisualFloatSetting", name |-> "Gain", value |-> FloatV(1)],
     [cls |-> "VisualIntSetting", name |-> "Averages", value |-> IntV(1)]}

\* the texts the widgets hand over
SettingTexts ==
    {TextV("3.5"), TextV("7"), TextV(""), TextV("abc"), TextV("RX2"),
     TextV("192.168.1.7")}

InitSetting ==
    /\ setting \in ConstructedSettings
    /\ settingCall = NoCallYet
    /\ settingResult = None
    /\ IdleSequence
    /\ IdleFile
    /\ IdleOption
    /\ IdleFunction
    /\ IdleEvent
    /\ IdleParameter
    /\ IdleMenu
    /\ IdleController
    /\ IdleHeap

\* setting.on_value_changed(value), from the line edit, check box or combo
\* box of the setting
SettingOnValueChanged(value) ==
    /\ setting.cls \notin {"VisualFloatSetting", "VisualIntSetting"}
    /\ IF setting.cls = "BooleanSetting" THEN value.ty = "bool" ELSE value.ty = "str"
    /\ settingCall' = [method |-> "on_value_changed", arg |-> value, self |-> setting]
    /\ settingResult' = Setting_on_value_changed(setting, value)
    /\ setting' = settingResult'.val
    /\ UNCHANGED notSettingVars

\* setting.on_state_updated(state, text), from the spin box or line edit of
\* the visual setting, whose state says whether its text is valid
SettingOnStateUpdated(text) ==
    /\ setting.cls \in {"VisualFloatSetting", "VisualIntSetting"}
    /\ LET kind == IF setting.cls = "VisualFloatSetting" THEN "float" ELSE "int"
           state == validate(kind, text.s) = "Acceptable"
       IN  /\ settingCall' = [method |-> "on_state_updated", arg |-> text,
                              self |-> setting]
           /\ settingResult' = on_state_updated(setting, state, text)
    /\ setting' = settingResult'.val
    /\ UNCHANGED notSettingVars

NextSetting ==
    \/ \E value \in SettingTexts \cup BooleanValues : SettingOnValueChanged(value)
    \/ \E text \in SettingTexts : SettingOnStateUpdated(text)

SpecSetting == InitSetting /\ [][NextSetting]_vars

-----------------------------------------------------------------------------
(* The spectrometer module (model.py, view.py, controller.py,              *)
(* base_spectrometer.py).  A spectrometer sub-module is [id,               *)
(* settings_view, pulse_programmer_view, toolbar_name], with None for the  *)
(* pulse programmer view of a sub-module that has no pulse programmer; a   *)
(* widget is [ty, id].  A QStackedWidget is [widgets, current]: the first  *)
(* widget added becomes current, and setCurrentWidget with a widget the    *)
(* stack does not contain changes nothing.  A call runs in a world         *)
(* [model, view, trace], where trace lists the signals emitted and the     *)
(* stacked widget calls made, in order; its outcome is [ok, w] or          *)
(* [ok, err, w] with the world the call leaves.                            *)

Widget(id) == [ty |-> "QWidget", id |-> id]

\* the spectrometer sub-modules add_spectrometers is called with: one with a
\* pulse programmer, one without, and a second instance of the first
SpectrometerModules ==
    {[id |-> 1, settings_view |-> Widget("settings 1"),
      pulse_programmer_view |-> Widget("programmer 1"), toolbar_name |-> "LimeNQR"],
     [id |-> 2, settings_view |-> Widget("settings 2"),
      pulse_programmer_view |-> None, toolbar_name |-> "Simulator"],
     [id |-> 3, settings_view |-> Widget("settings 3"),
      pulse_programmer_view |-> Widget("programmer 3"), toolbar_name |-> "LimeNQR"]}

\* the names the sub-modules are added and clicked under
SpectrometerNames == {"nqrduck-spectrometer-limenqr", "nqrduck-spectrometer-simulator"}

\* SpectrometerModel.__init__
SpectrometerModel_init ==
    [active_spectrometer |-> None, available_spectrometers |-> <<>>]

\* SpectrometerView.__init__
SpectrometerView_init ==
    [actions |-> <<>>,
     connected |-> {},
     blank |-> Widget("blank"),
     stackedWidgetSettings |-> [widgets |-> {}, current |-> None],
     stackedWidgetPulseProgrammer |-> [widgets |-> {}, current |-> None]]

World(model, view) == [model |-> model, view |-> view, trace |-> <<>>]
Returned(w) == [ok |-> TRUE, w |-> w]
Raised(e, w) == [ok |-> FALSE, err |-> e, w |-> w]

\* the call or emission is written to the trace
Logged(w, op, arg) == [w EXCEPT !.trace = Append(@, [op |-> op, arg |-> arg])]

\* QStackedWidget.addWidget on the stacked widget named stack
addWidget(w, stack, widget) ==
    LET l == Logged(w, "addWidget",
                    [stack |-> stack, widget |-> widget,
                     contained |-> widget \in w.view[stack].widgets])
    IN  [l EXCEPT !.view[stack].widgets = @ \cup {widget},
                  !.view[stack].current = IF @ = None THEN widget ELSE @]

\* QStackedWidget.setCurrentWidget on the stacked widget named stack
setCurrentWidget(w, stack, widget) ==
    LET l == Logged(w, "setCurrentWidget",
                    [stack |-> stack, widget |-> widget,
                     contained |-> widget \in w.view[stack].widgets])
    IN  IF widget \in w.view[stack].widgets
        THEN [l EXCEPT !.view[stack].current = widget]
        ELSE l

\* SpectrometerView.on_active_spectrometer_changed; reading the pulse
\* programmer view of a sub-module without one raises AttributeError
on_active_spectrometer_changed(w, module) ==
    LET w1 == setCurrentWidget(w, "stackedWidgetSettings", module.settings_view)
    IN  IF module.pulse_programmer_view # None
        THEN setCurrentWidget(w1, "stackedWidgetPulseProgrammer",
                              module.pulse_programmer_view)
        ELSE setCurrentWidget(w1, "stackedWidgetPulseProgrammer", w1.view.blank)

\* SpectrometerView.on_spectrometer_widget_changed
on_spectrometer_widget_changed(w, module) ==
    LET w1 == addWidget(w, "stackedWidgetSettings", module.settings_view)
        w2 == setCurrentWidget(w1, "stackedWidgetSettings", module.settings_view)
    IN  IF module.pulse_programmer_view # None
        THEN setCurrentWidget(
                 addWidget(w2, "stackedWidgetPulseProgrammer",
                           module.pulse_programmer_view),
                 "stackedWidgetPulseProgrammer", module.pulse_programmer_view)
        ELSE setCurrentWidget(
                 addWidget(w2, "stackedWidgetPulseProgrammer", w2.view.blank),
                 "stackedWidgetPulseProgrammer", w2.view.blank)

\* SpectrometerView.on_spectrometer_added
on_spectrometer_added(w, module) ==
    on_spectrometer_widget_changed(
        [w EXCEPT !.view.connected = @ \cup {module.id}], module)

\* the setter of SpectrometerModel.active_spectrometer, with the slot
\* on_loading connected to active_spectrometer_changed
active_spectrometer_setter(w, value) ==
    LET w1 == [w EXCEPT !.model.active_spectrometer = value]
    IN  on_active_spectrometer_changed(
            Logged(w1, "active_spectrometer_changed", value), value)

\* an add_spectrometers that makes the module active before it announces it
add_spectrometers_activating_first(w, spectrometer_module_name, module) ==
    LET w1 == [w EXCEPT !.model.available_spectrometers =
                            OD_set(@, spectrometer_module_name, module)]
        w2 == active_spectrometer_setter(w1, module)
    IN  on_spectrometer_added(Logged(w2, "spectrometer_added", module), module)

\* SpectrometerModel.add_spectrometers, with the slot on_loading connected
\* to spectrometer_added
add_spectrometers(w, spectrometer_module_name, module) ==
    LET w1 == [w EXCEPT !.model.available_spectrometers =
                            OD_set(@, spectrometer_module_name, module)]
        w2 == on_spectrometer_added(Logged(w1, "spectrometer_added", module), module)
    IN  active_spectrometer_setter(w2, module)

\* the loop of create_menu_entry: one checkable action per available
\* spectrometer, stored under its name
RECURSIVE make_actions(_, _, _)
make_actions(actions, available, i) ==
    IF i > Len(available) THEN actions
    ELSE make_actions(
             OD_set(actions, available[i].key,
                    [text |-> available[i].val.toolbar_name,
                     triggered |-> available[i].val.id,
                     checkable |-> TRUE, checked |-> FALSE]),
             available, i + 1)

\* SpectrometerView.create_menu_entry; list(self._actions.keys())[-1] of an
\* empty dict raises IndexError
create_menu_entry(w) ==
    LET actions == make_actions(w.view.actions, w.model.available_spectrometers, 1)
        w1 == [w EXCEPT !.view.actions = actions]
    IN  IF Len(actions) = 0 THEN Raised("IndexError", w1)
        ELSE Returned(Logged(
                 [w1 EXCEPT !.view.actions[Len(actions)].val.checked = TRUE],
                 "add_menubar_item",
                 [title |-> "Spectrometer", actions |-> keys(actions)]))

\* an on_menu_button_clicked that moves the check mark alone
on_menu_button_clicked_checking_only(w, spectrometer_name) ==
    LET actions == w.view.actions
        w1 == [w EXCEPT !.view.actions =
                   [i \in 1..Len(actions) |-> [actions[i] EXCEPT !.val.checked = FALSE]]]
    IN  IF \A i \in 1..Len(actions) : actions[i].key # spectrometer_name
        THEN Raised("KeyError", w1)
        ELSE Returned([w1 EXCEPT !.view.actions =
                 [i \in 1..Len(actions) |->
                     IF actions[i].key = spectrometer_name
                     THEN [w1.view.actions[i] EXCEPT !.val.checked = TRUE]
                     ELSE w1.view.actions[i]]])

\* SpectrometerView.on_menu_button_clicked; self._actions[name] and
\* available_spectrometers[name] raise KeyError for a name that is no key
on_menu_button_clicked(w, spectrometer_name) ==
    LET actions == w.view.actions
        w1 == [w EXCEPT !.view.actions =
                   [i \in 1..Len(actions) |-> [actions[i] EXCEPT !.val.checked = FALSE]]]
    IN  IF \A i \in 1..Len(actions) : actions[i].key # spectrometer_name
        THEN Raised("KeyError", w1)
        ELSE LET w2 == [w1 EXCEPT !.view.actions =
                           [i \in 1..Len(actions) |->
                               IF actions[i].key = spectrometer_name
                               THEN [w1.view.actions[i] EXCEPT !.val.checked = TRUE]
                               ELSE w1.view.actions[i]]]
                 available == w2.model.available_spectrometers
             IN  IF \A i \in 1..Len(available) : available[i].key # spectrometer_name
                 THEN Raised("KeyError", w2)
                 ELSE Returned(active_spectrometer_setter(
                                   w2, OD_get(available, spectrometer_name)))

-----------------------------------------------------------------------------
(* SpecMenu: the spectrometer module after on_loading has connected the    *)
(* signals of the model to the view: sub-modules are added, the menu is    *)
(* created, menu buttons are clicked.                                      *)

InitMenu ==
    /\ spectrometerModel = SpectrometerModel_init
    /\ spectrometerView = SpectrometerView_init
    /\ menuPc = "loading"
    /\ menuCall = NoCallYet
    /\ menuResult = None
    /\ IdleSequence
    /\ IdleFile
    /\ IdleOption
    /\ IdleFunction
    /\ IdleEvent
    /\ IdleParameter
    /\ IdleSetting
    /\ IdleController
    /\ IdleHeap

\* model.add_spectrometers(spectrometer_module_name, module)
AddSpectrometers(spectrometer_module_name, module) ==
    /\ LET w == add_spectrometers(World(spectrometerModel, spectrometerView),
                                  spectrometer_module_name, module)
       IN  /\ spectrometerModel' = w.model
           /\ spectrometerView' = w.view
           /\ menuResult' = [ok |-> TRUE, trace |-> w.trace]
    /\ menuCall' = [method |-> "add_spectrometers",
                    arg |-> [name |-> spectrometer_module_name, module |-> module],
                    self |-> [model |-> spectrometerModel, view |-> spectrometerView]]
    /\ menuPc' = IF menuPc = "loading" THEN "loading" ELSE "extended"
    /\ UNCHANGED notMenuVars

\* view.create_menu_entry(), at the end of _load_spectrometer_modules
CreateMenuEntry ==
    /\ menuPc = "loading"
    /\ LET r == create_menu_entry(World(spectrometerModel, spectrometerView))
       IN  /\ spectrometerModel' = r.w.model
           /\ spectrometerView' = r.w.view
           /\ menuResult' = IF r.ok THEN [ok |-> TRUE, trace |-> r.w.trace]
                            ELSE [ok |-> FALSE, err |-> r.err, trace |-> r.w.trace]
           /\ menuPc' = IF r.ok THEN "ready" ELSE "failed"
    /\ menuCall' = [method |-> "create_menu_entry", arg |-> None,
                    self |-> [model |-> spectrometerModel, view |-> spectrometerView]]
    /\ UNCHANGED notMenuVars

\* view.on_menu_button_clicked(spectrometer_name)
OnMenuButtonClicked(spectrometer_name) ==
    /\ LET r == on_menu_button_clicked(World(spectrometerModel, spectrometerView),
                                       spectrometer_name)
       IN  /\ spectrometerModel' = r.w.model
           /\ spectrometerView' = r.w.view
           /\ menuResult' = IF r.ok THEN [ok |-> TRUE, trace |-> r.w.trace]
                            ELSE [ok |-> FALSE, err |-> r.err, trace |-> r.w.trace]
    /\ menuCall' = [method |-> "on_menu_button_clicked", arg |-> TextV(spectrometer_name),
                    self |-> [model |-> spectrometerModel, view |-> spectrometerView]]
    /\ UNCHANGED <<menuPc, notMenuVars>>

NextMenu ==
    \/ \E spectrometer_module_name \in SpectrometerNames, module \in SpectrometerModules :
           AddSpectrometers(spectrometer_module_name, module)
    \/ CreateMenuEntry
    \/ \E spectrometer_name \in SpectrometerNames : OnMenuButtonClicked(spectrometer_name)

SpecMenu == InitMenu /\ [][NextMenu]_vars

-----------------------------------------------------------------------------
(* Settings files (base_spectrometer_controller.py,                        *)
(* base_spectrometer_model.py).  model.settings is an OrderedDict from     *)
(* category to the list of the settings add_setting made, each a           *)
(* BaseSpectrometerModel.Setting with a plain value attribute.  The file   *)
(* holds str(dict) and is read with ast.literal_eval, which gives back the *)
(* dict for the texts and numbers a setting holds; settingsFile is that    *)
(* dict.  The outcome of load_settings is [ok, settings, notifications]:   *)
(* the settings after it and the nqrduck_signal emissions it made.         *)

\* self.module.model.name
ModuleName == "LimeNQR"

\* BaseSpectrometerModel.Setting.__init__
BaseSpectrometerModel_Setting(name, default, description) ==
    [name |-> name, value |-> default, description |-> description]

\* BaseSpectrometerModel.add_setting
add_setting(settings, name, value, description, category) ==
    LET added == BaseSpectrometerModel_Setting(name, value, description)
    IN  IF \E c \in 1..Len(settings) : settings[c].key = category
        THEN [c \in 1..Len(settings) |->
                 IF settings[c].key = category
                 THEN [settings[c] EXCEPT !.val = Append(@, added)]
                 ELSE settings[c]]
        ELSE OD_set(settings, category, <<added>>)

\* the settings of all categories, in the order the loops visit them
RECURSIVE all_settings(_, _)
all_settings(settings, c) ==
    IF c > Len(settings) THEN <<>>
    ELSE settings[c].val \o all_settings(settings, c + 1)

\* the loops of save_settings: json[setting.name] = setting.value
RECURSIVE save_values(_, _, _)
save_values(json, list, i) ==
    IF i > Len(list) THEN json
    ELSE save_values(OD_set(json, list[i].name, list[i].value), list, i + 1)

\* BaseSpectrometerController.save_settings: the dict it writes
save_settings(name, settings) ==
    save_values(OD_set(<<>>, "name", TextV(name)), all_settings(settings, 1), 1)

notification(message) == [key |-> "notification", value |-> <<"Error", message>>]

\* the loops of load_settings over the settings of one category, from the
\* i-th on
RECURSIVE load_values(_, _, _, _)
load_values(list, json, notifications, i) ==
    IF i > Len(list) THEN [list |-> list, notifications |-> notifications]
    ELSE IF \E k \in 1..Len(json) : json[k].key = list[i].name
    THEN load_values([list EXCEPT ![i].value = OD_get(json, list[i].name)],
                     json, notifications, i + 1)
    ELSE load_values(list, json,
             Append(notifications,
                 notification("Setting " \o list[i].name
                     \o " not found in settings file. A change in settings might have broken compatibility.")),
             i + 1)

RECURSIVE load_categories(_, _, _, _)
load_categories(settings, json, notifications, c) ==
    IF c > Len(settings)
    THEN [ok |-> TRUE, settings |-> settings, notifications |-> notifications]
    ELSE LET r == load_values(settings[c].val, json, notifications, 1)
         IN  load_categories([settings EXCEPT ![c].val = r.list], json,
                             r.notifications, c + 1)

\* a load_settings that reads the values whatever module the file names
load_settings_of_any_module(module_name, settings, json) ==
    load_categories(settings, json, <<>>, 1)

\* BaseSpectrometerController.load_settings on the dict read from the file
load_settings(module_name, settings, json) ==
    LET json_name == OD_get(json, "name")
    IN  IF TextV(module_name) # json_name
        THEN [ok |-> TRUE, settings |-> settings,
              notifications |->
                  <<notification("Module: " \o module_name
                        \o " not compatible with module specified in settings file: "
                        \o json_name.s \o ". Did you select the correct settings file?")>>]
        ELSE load_categories(settings, json, <<>>, 1)

-----------------------------------------------------------------------------
(* SpecController: the settings of one spectrometer are changed, saved to  *)
(* a settings file, the file is edited, and the file is loaded.            *)

\* model.settings as the add_setting calls of a spectrometer model leave it
DefaultSettings ==
    add_setting(
        add_setting(
            add_setting(<<>>, "Frequency", TextV("100"), "Experiment frequency",
                        "Acquisition"),
            "Averages", TextV("1"), "Number of averages", "Acquisition"),
        "TX Gain", TextV("50"), "Transmit gain", "Gain")

\* the names of the settings
SettingNames == {"Frequency", "Averages", "TX Gain"}

\* texts handed to on_value_changed, values written into a file by hand
\* and module names a file may carry
EnteredTexts == {TextV("3.5")}
FileValues == {IntV(7)}
FileNames == {ModuleName, "Simulator"}

InitController ==
    /\ moduleSettings = DefaultSettings
    /\ settingsFile = <<>>
    /\ loadResult = None
    /\ IdleSequence
    /\ IdleFile
    /\ IdleOption
    /\ IdleFunction
    /\ IdleEvent
    /\ IdleParameter
    /\ IdleSetting
    /\ IdleMenu
    /\ IdleHeap

\* model.settings[category][i].on_value_changed(value)
ControllerSetValue(c, i, value) ==
    /\ c \in 1..Len(moduleSettings)
    /\ i \in 1..Len(moduleSettings[c].val)
    /\ moduleSettings' = [moduleSettings EXCEPT ![c].val[i].value = value]
    /\ UNCHANGED <<settingsFile, loadResult, notCtlVars>>

\* controller.save_settings(path), and the file read back
SaveSettings ==
    /\ settingsFile' = save_settings(ModuleName, moduleSettings)
    /\ UNCHANGED <<moduleSettings, loadResult, notCtlVars>>

\* the file is edited: a value is written under the name of a setting
FileSetValue(name, value) ==
    /\ settingsFile # <<>>
    /\ settingsFile' = OD_set(settingsFile, name, value)
    /\ UNCHANGED <<moduleSettings, loadResult, notCtlVars>>

\* the file is edited: the entry of a setting is removed
FileRemove(name) ==
    /\ settingsFile # <<>>
    /\ settingsFile' = SelectSeq(settingsFile, LAMBDA entry : entry.key # name)
    /\ UNCHANGED <<moduleSettings, loadResult, notCtlVars>>

\* the file is edited, or comes from another spectrometer: it names a module
FileSetName(name) ==
    /\ settingsFile # <<>>
    /\ settingsFile' = OD_set(settingsFile, "name", TextV(name))
    /\ UNCHANGED <<moduleSettings, loadResult, notCtlVars>>

\* controller.load_settings(path)
LoadSettings ==
    /\ settingsFile # <<>>
    /\ LET r == load_settings(ModuleName, moduleSettings, settingsFile)
       IN  /\ moduleSettings' = r.settings
           /\ loadResult' = [ok |-> r.ok, notifications |-> r.notifications]
    /\ UNCHANGED <<settingsFile, notCtlVars>>

NextController ==
    \/ \E c \in 1..2, i \in 1..2, value \in EnteredTexts : ControllerSetValue(c, i, value)
    \/ SaveSettings
    \/ \E name \in SettingNames, value \in FileValues : FileSetValue(name, value)
    \/ \E name \in SettingNames : FileRemove(name)
    \/ \E name \in FileNames : FileSetName(name)
    \/ LoadSettings

SpecController == InitController /\ [][NextController]_vars

-----------------------------------------------------------------------------
(* SpecHeap: two pulse sequences as object graphs.  Every object lives at  *)
(* an address of heap; an attribute that holds an object holds its address,*)
(* so that a container two objects hold is one container.  A sequence is   *)
(* built by the constructors, serialized with to_json, loaded again with   *)
(* load_sequence, and then either sequence is edited.                      *)

MaxHeapEdits == 3

\* [RectFunction(), SincFunction(), GaussianFunction(), CustomFunction()]
\* and Function.__subclasses__(): the classes, in order
OptionFunctionClasses ==
    <<"RectFunction", "SincFunction", "GaussianFunction", "CustomFunction">>

\* a reference held as the value of an option
Ref(a) == [ty |-> "ref", at |-> a]

\* the statements of a method run in order: the heap one statement leaves
\* is complete before the next statement starts
After(h) == Len(h) >= 0

\* a new object: the heap with it, and its address
New(h, obj) == [h |-> Append(h, obj), at |-> Len(h) + 1]

\* [] and list(): a new, empty list held under the attribute attr
list_new(h, attr) == New(h, [kind |-> "list", attr |-> attr, items |-> <<>>])

\* list.append
list_append(h, l, a) == [h EXCEPT ![l].items = Append(@, a)]

\* l.append(cls(...)): the list at l gets the object that r has created
Appended(l, r) == list_append(r.h, l, r.at)

\* one list of parameters that every Function holds
Function_parameters_of_the_class(h) ==
    LET shared == {a \in 1..Len(h) :
                      h[a].kind = "list" /\ h[a].attr = "Function.parameters"}
    IN  IF shared = {} THEN list_new(h, "Function.parameters")
        ELSE [h |-> h, at |-> CHOOSE a \in shared : \A b \in shared : a <= b]

\* self.parameters = [] in Function.__init__
Function_parameters(h) == list_new(h, "Function.parameters")

\* a Function.Parameter with the attributes of p
Parameter_new(h, p) ==
    New(h, [kind |-> "Parameter", name |-> p.name, symbol |-> p.symbol,
            value |-> p.value, default |-> p.default])

\* self.add_parameter(Function.Parameter(...)) for each parameter the
\* constructor of the shape adds
RECURSIVE Function_add_parameters(_, _, _, _)
Function_add_parameters(h, f, parameters, i) ==
    IF i > Len(parameters) \/ ~After(h) THEN h
    ELSE Function_add_parameters(
             Appended(h[f].parameters, Parameter_new(h, parameters[i])),
             f, parameters, i + 1)

\* Function.__init__ after self.parameters = [], which left the list l, and
\* the rest of the constructor of the shape
Function_init_new(l, shape) ==
    LET f == New(l.h, [kind |-> "Function", cls |-> shape.cls, name |-> shape.name,
                       parameters |-> l.at, expr |-> shape.expr,
                       resolution |-> shape.resolution,
                       start_x |-> shape.start_x, end_x |-> shape.end_x])
    IN  [h |-> Function_add_parameters(f.h, f.at, shape.parameters, 1), at |-> f.at]

\* cls() for a shape class
Function_new(h, cls) == Function_init_new(Function_parameters(h), construct(cls).val)

\* Option.__init__ of a NumericOption or BooleanOption
Option_new(h, cls, name, value) ==
    New(h, [kind |-> "Option", cls |-> cls, name |-> name, value |-> value,
            functions |-> 0])

\* the list of one new instance of every shape, in the order of
\* Function.__subclasses__()
RECURSIVE functions_new(_, _, _)
functions_new(h, l, i) ==
    IF i > Len(OptionFunctionClasses) \/ ~After(h) THEN h
    ELSE functions_new(Appended(l, Function_new(h, OptionFunctionClasses[i])), l, i + 1)

\* FunctionOption.__init__ with the list at l as functions
FunctionOption_init_new(h, l, name) ==
    New(h, [kind |-> "Option", cls |-> "FunctionOption", name |-> name,
            value |-> Ref(h[l].items[1]), functions |-> l])

\* the list l filled with the shapes, handed to FunctionOption(name, l)
FunctionOption_of(l, name) ==
    FunctionOption_init_new(functions_new(l.h, l.at, 1), l.at, name)

\* FunctionOption(name, [RectFunction(), SincFunction(), GaussianFunction(),
\* CustomFunction()])
FunctionOption_new(h, name) ==
    FunctionOption_of(list_new(h, "FunctionOption.functions"), name)

\* self.add_option(...) for each option the constructor of the pulse
\* parameter class adds
RECURSIVE add_options_new(_, _, _, _)
add_options_new(h, p, options, i) ==
    IF i > Len(options) \/ ~After(h) THEN h
    ELSE add_options_new(
             Appended(h[p].options,
                      IF options[i].cls = "FunctionOption"
                      THEN FunctionOption_new(h, options[i].name)
                      ELSE Option_new(h, options[i].cls, options[i].name,
                                      options[i].value)),
             p, options, i + 1)

\* PulseParameter.__init__ after self.options = list(), which left the
\* list l, and the rest of the constructor of TXPulse, RXReadout or Gate
PulseParameter_init_new(l, cls, name, options) ==
    LET p == New(l.h, [kind |-> "PulseParameter", cls |-> cls, name |-> name,
                       options |-> l.at])
    IN  [h |-> add_options_new(p.h, p.at, options, 1), at |-> p.at]

\* pulse_parameter_class(name)
PulseParameter_new(h, cls, name) ==
    PulseParameter_init_new(list_new(h, "PulseParameter.options"), cls, name,
                            pulse_parameter_class(cls, name).options)

\* PulseSequence.Event.__init__
Event_new(h, name, duration) ==
    New(h, [kind |-> "Event", name |-> name, duration |-> duration,
            parameters |-> <<>>])

\* PulseSequence.__init__
PulseSequence_new(h, name) ==
    LET l == list_new(h, "PulseSequence.events")
    IN  New(l.h, [kind |-> "PulseSequence", name |-> name, events |-> l.at])

\* the loop of Function.from_json over data["parameters"]
RECURSIVE Function_load_parameters(_, _, _, _)
Function_load_parameters(h, f, parameters, i) ==
    IF i > Len(parameters) \/ ~After(h) THEN h
    ELSE Function_load_parameters(
             Appended(h[f].parameters,
                      Parameter_new(h, Parameter_from_json(parameters[i]))),
             f, parameters, i + 1)

\* Function.from_json after obj = cls(), which left the Function f: the
\* attributes from data, obj.parameters = [] and the parameters from data
Function_loaded_new(f, loaded, data) ==
    LET l == list_new([f.h EXCEPT ![f.at].expr = loaded.expr,
                                  ![f.at].name = loaded.name,
                                  ![f.at].resolution = loaded.resolution,
                                  ![f.at].start_x = loaded.start_x,
                                  ![f.at].end_x = loaded.end_x],
                      "Function.parameters")
    IN  [h |-> Function_load_parameters([l.h EXCEPT ![f.at].parameters = l.at],
                                        f.at, data.parameters, 1),
         at |-> f.at]

\* Function.from_json
Function_from_json_new(h, data) ==
    Function_loaded_new(Function_new(h, subclass_for(data.name)),
                        Function_from_json(data).val, data)

\* obj.value = Function.from_json(data["value"]) for the option at o
FunctionOption_valued(o, f) == [h |-> [f.h EXCEPT ![o].value = Ref(f.at)], at |-> o]

\* FunctionOption.from_json after obj = cls(data["name"], functions), which
\* left the option o
FunctionOption_loaded_new(o, data) ==
    FunctionOption_valued(o.at, Function_from_json_new(o.h, data.value))

\* Option.from_json and FunctionOption.from_json
Option_from_json_new(h, data) ==
    IF option_subclass_for(data.type) = "FunctionOption"
    THEN FunctionOption_loaded_new(FunctionOption_new(h, data.name), data)
    ELSE Option_new(h, option_subclass_for(data.type), data.name, data.value)

\* the loop over parameter["value"] in load_event
RECURSIVE load_options_new(_, _, _, _, _)
load_options_new(h, e, key, value, i) ==
    IF i > Len(value) \/ ~After(h) THEN h
    ELSE load_options_new(
             Appended(h[OD_get(h[e].parameters, key)].options,
                      Option_from_json_new(h, value[i])),
             e, key, value, i + 1)

\* event.parameters[key] = p, the pulse parameter just created
Parameter_assigned(p, e, key) == [p.h EXCEPT ![e].parameters = OD_set(@, key, p.at)]

\* obj.parameters[key] = pulse_parameter_class(name) and
\* obj.parameters[key].options = []
Parameter_emptied(p, e, key) ==
    LET l == list_new(Parameter_assigned(p, e, key), "PulseParameter.options")
    IN  [l.h EXCEPT ![p.at].options = l.at]

\* the loop over event["parameters"] in load_event: a parameter whose name
\* is a key of the registry gets a new instance of the class under that
\* key, a new list of options, and the options read from the data
RECURSIVE load_parameters_new(_, _, _, _, _)
load_parameters_new(h, e, parameters, pulse_parameter_options, i) ==
    IF i > Len(parameters) \/ ~After(h) THEN h
    ELSE load_parameters_new(
             IF \E j \in 1..Len(pulse_parameter_options) :
                    registered(pulse_parameter_options[j].key, parameters[i])
             THEN load_options_new(
                      Parameter_emptied(
                          PulseParameter_new(
                              h, OD_get(pulse_parameter_options, parameters[i].name),
                              parameters[i].name),
                          e, parameters[i].name),
                      e, parameters[i].name, parameters[i].value, 1)
             ELSE h,
             e, parameters, pulse_parameter_options, i + 1)

\* PulseSequence.Event.load_event
load_event_new(h, event, pulse_parameter_options) ==
    LET e == Event_new(h, event.name, event.duration)
    IN  [h |-> load_parameters_new(e.h, e.at, event.parameters,
                                   pulse_parameter_options, 1),
         at |-> e.at]

\* the loop over sequence["events"] in load_sequence
RECURSIVE load_events_new(_, _, _, _, _)
load_events_new(h, s, events, pulse_parameter_options, i) ==
    IF i > Len(events) \/ ~After(h) THEN h
    ELSE load_events_new(
             Appended(h[s].events, load_event_new(h, events[i], pulse_parameter_options)),
             s, events, pulse_parameter_options, i + 1)

\* PulseSequence.load_sequence
load_sequence_new(h, sequence, pulse_parameter_options) ==
    LET s == PulseSequence_new(h, sequence.name)
    IN  [h |-> load_events_new(s.h, s.at, sequence.events, pulse_parameter_options, 1),
         at |-> s.at]

\* the Function at address f, with its parameters
FunctionAt(h, f) ==
    [cls |-> h[f].cls, name |-> h[f].name,
     parameters |-> [i \in 1..Len(h[h[f].parameters].items) |->
                        LET p == h[h[h[f].parameters].items[i]]
                        IN  [name |-> p.name, symbol |-> p.symbol, value |-> p.value,
                             default |-> p.default]],
     expr |-> h[f].expr, resolution |-> h[f].resolution,
     start_x |-> h[f].start_x, end_x |-> h[f].end_x]

\* option.to_json() for the option at address o
Option_to_json_at(h, o) ==
    IF h[o].cls = "FunctionOption"
    THEN [name |-> h[o].name,
          value |-> Function_to_json(FunctionAt(h, h[o].value.at)),
          type |-> OptionTYPE(h[o].cls)]
    ELSE Option_to_json([cls |-> h[o].cls, name |-> h[o].name,
                         value |-> h[o].value]).val

\* PulseSequence.to_json for the sequence at address s
to_json_at(h, s) ==
    LET events == h[h[s].events].items
    IN  [name |-> h[s].name,
         events |-> [i \in 1..Len(events) |->
            LET e == h[events[i]]
            IN  [name |-> e.name,
                 duration |-> e.duration,
                 parameters |-> [k \in 1..Len(e.parameters) |->
                    LET options == h[h[e.parameters[k].val].options].items
                    IN  [name |-> e.parameters[k].key,
                         value |-> [j \in 1..Len(options) |->
                                       Option_to_json_at(h, options[j])]]]]]]

\* the addresses the object at address a holds
Refs(h, a) ==
    CASE h[a].kind = "list" -> {h[a].items[i] : i \in 1..Len(h[a].items)}
      [] h[a].kind = "Function" -> {h[a].parameters}
      [] h[a].kind = "Option" ->
            (IF h[a].value.ty = "ref" THEN {h[a].value.at} ELSE {})
            \cup (IF h[a].functions = 0 THEN {} ELSE {h[a].functions})
      [] h[a].kind = "PulseParameter" -> {h[a].options}
      [] h[a].kind = "Event" ->
            {h[a].parameters[i].val : i \in 1..Len(h[a].parameters)}
      [] h[a].kind = "PulseSequence" -> {h[a].events}
      [] OTHER -> {}

\* the objects a sequence can reach through its attributes
RECURSIVE Reach(_, _, _)
Reach(h, frontier, seen) ==
    IF frontier = {} THEN seen
    ELSE LET held == UNION {Refs(h, a) : a \in frontier}
         IN  Reach(h, held \ (seen \cup frontier), seen \cup frontier)

\* the sequence the pulse programmer builds: one event with a TX pulse and
\* an RX readout
BuiltSequence ==
    LET s == PulseSequence_new(<<>>, "spin-echo")
        e == Event_new(s.h, "excite", FloatV(10))
    IN  [h |-> Parameter_assigned(
                   PulseParameter_new(
                       Parameter_assigned(
                           PulseParameter_new(Appended(s.h[s.at].events, e),
                                              "TXPulse", "TX"),
                           e.at, "TX"),
                       "RXReadout", "RX"),
                   e.at, "RX"),
         at |-> s.at]

\* values handed to the setters of the two sequences
HeapNumericValues == {FloatV(2)}
HeapBooleanValues == {BoolV(TRUE)}
HeapParameterValues == {IntV(3)}
HeapDurations == {FloatV(20)}

\* the parameter the editor adds to a Function
AddedParameter == Parameter("Offset", "c", IntV(0))

\* the addresses of the events of the sequence at s, and of the options of
\* the pulse parameter an event holds under key
EventsOf(h, s) == h[h[s].events].items
OptionsOf(h, e, key) == h[h[OD_get(h[e].parameters, key)].options].items

\* the serialized form of both sequences, None for one that does not exist
Serialized(h, r) ==
    [x \in 1..2 |-> IF r[x] = 0 THEN None ELSE to_json_at(h, r[x])]

\* a call of method on sequence x that leaves heap as h
HeapCalled(method, x, h) ==
    /\ heap' = h
    /\ heapEdits' = heapEdits + 1
    /\ heapCall' = [method |-> method, arg |-> [on |-> x],
                    self |-> Serialized(heap, roots)]

InitHeap ==
    /\ heap = BuiltSequence.h
    /\ roots = <<BuiltSequence.at, 0>>
    /\ heapData = None
    /\ heapEdits = 0
    /\ heapCall = NoCallYet
    /\ IdleFunction /\ IdleOption /\ IdleSequence /\ IdleFile /\ IdleEvent
    /\ IdleParameter /\ IdleSetting /\ IdleMenu /\ IdleController

\* data = S1.to_json()
HeapToJson ==
    /\ roots[1] # 0
    /\ heapData' = to_json_at(heap, roots[1])
    /\ heapData' # heapData
    /\ UNCHANGED <<heap, roots, heapEdits, heapCall, notHeapVars>>

\* PulseSequence.load_sequence(data, R), kept as sequence x
HeapLoadSequence(x) ==
    /\ heapEdits < MaxHeapEdits
    /\ heapData # None
    /\ load_sequence(heapData, PulseParameterOptions).ok
    /\ LET s == load_sequence_new(heap, heapData, PulseParameterOptions)
       IN  /\ HeapCalled("load_sequence", x, s.h)
           /\ roots' = [roots EXCEPT ![x] = s.at]
    /\ UNCHANGED <<heapData, notHeapVars>>

\* NumericOption.set_value and BooleanOption.set_value on an option of
\* sequence x
HeapOptionSetValue(x, e, key, o, value) ==
    /\ heapEdits < MaxHeapEdits
    /\ heap[o].cls \in {"NumericOption", "BooleanOption"}
    /\ value \in (IF heap[o].cls = "NumericOption" THEN HeapNumericValues
                  ELSE HeapBooleanValues)
    /\ LET r == Option_set_value([cls |-> heap[o].cls, name |-> heap[o].name,
                                  value |-> heap[o].value], value)
       IN  /\ r.ok
           /\ HeapCalled("set_value", x, [heap EXCEPT ![o].value = r.val.value])
    /\ UNCHANGED <<roots, heapData, notHeapVars>>

\* FunctionOption.set_value(self.functions[i]) on an option of sequence x
HeapFunctionOptionSetValue(x, e, key, o, i) ==
    /\ heapEdits < MaxHeapEdits
    /\ heap[o].cls = "FunctionOption"
    /\ i \in 1..Len(heap[heap[o].functions].items)
    /\ HeapCalled("set_value", x,
                  [heap EXCEPT ![o].value = Ref(heap[heap[o].functions].items[i])])
    /\ UNCHANGED <<roots, heapData, notHeapVars>>

\* Function.Parameter.set_value on the k-th parameter of the Function an
\* option of sequence x holds
HeapParameterSetValue(x, e, key, o, k, value) ==
    /\ heapEdits < MaxHeapEdits
    /\ heap[o].cls = "FunctionOption"
    /\ LET parameters == heap[heap[heap[o].value.at].parameters].items
       IN  /\ k \in 1..Len(parameters)
           /\ HeapCalled("Parameter.set_value", x,
                         [heap EXCEPT ![parameters[k]].value = value])
    /\ UNCHANGED <<roots, heapData, notHeapVars>>

\* Function.add_parameter on the Function an option of sequence x holds
HeapAddParameter(x, e, key, o) ==
    /\ heapEdits < MaxHeapEdits
    /\ heap[o].cls = "FunctionOption"
    /\ HeapCalled("add_parameter", x,
                  Appended(heap[heap[o].value.at].parameters,
                           Parameter_new(heap, AddedParameter)))
    /\ UNCHANGED <<roots, heapData, notHeapVars>>

\* Event.on_duration_changed on an event of sequence x
HeapOnDurationChanged(x, e, duration) ==
    /\ heapEdits < MaxHeapEdits
    /\ HeapCalled("on_duration_changed", x, [heap EXCEPT ![e].duration = duration])
    /\ UNCHANGED <<roots, heapData, notHeapVars>>

\* the options of the sequences that exist: the sequence, the event, the
\* key of the pulse parameter and the option
HeapOptions ==
    {t \in UNION {UNION {UNION {{<<x, EventsOf(heap, roots[x])[n],
                                  heap[EventsOf(heap, roots[x])[n]].parameters[k].key, o>> :
                    o \in {OptionsOf(heap, EventsOf(heap, roots[x])[n],
                             heap[EventsOf(heap, roots[x])[n]].parameters[k].key)[j] :
                           j \in 1..Len(OptionsOf(heap, EventsOf(heap, roots[x])[n],
                             heap[EventsOf(heap, roots[x])[n]].parameters[k].key))}} :
                 k \in 1..Len(heap[EventsOf(heap, roots[x])[n]].parameters)} :
              n \in 1..Len(EventsOf(heap, roots[x]))} :
           x \in {y \in 1..2 : roots[y] # 0}} : TRUE}

NextHeap ==
    \/ HeapToJson
    \/ \E x \in 1..2 : HeapLoadSequence(x)
    \/ \E t \in HeapOptions, value \in HeapNumericValues \cup HeapBooleanValues :
          HeapOptionSetValue(t[1], t[2], t[3], t[4], value)
    \/ \E t \in HeapOptions, i \in 1..Len(FunctionSubclasses) :
          HeapFunctionOptionSetValue(t[1], t[2], t[3], t[4], i)
    \/ \E t \in HeapOptions, k \in 1..MaxOptions, value \in HeapParameterValues :
          HeapParameterSetValue(t[1], t[2], t[3], t[4], k, value)
    \/ \E t \in HeapOptions : HeapAddParameter(t[1], t[2], t[3], t[4])
    \/ \E x \in {y \in 1..2 : roots[y] # 0} :
          \E n \in 1..Len(EventsOf(heap, roots[x])), duration \in HeapDurations :
             HeapOnDurationChanged(x, EventsOf(heap, roots[x])[n], duration)

SpecHeap == InitHeap /\ [][NextHeap]_vars

-----------------------------------------------------------------------------
(* Properties of Function, checked under SpecFunction *)

KnownFunctionNames == {FunctionSubclasses[i].name : i \in 1..Len(FunctionSubclasses)}

\* fnData is a serialized Function (not None, not constructor arguments)
IsFunctionData(d) == d # None /\ "name" \in DOMAIN d

\* the expression can be turned into a symbolic expression
Sympifiable(expr) ==
    \/ expr.ty = "Expr"
    \/ expr.ty = "str" /\ Sympify(expr.s).ok

\* C4: Function.from_json(f.to_json()) is an instance of the same shape with
\* the same name, expression, resolution, start_x and end_x, and the same
\* parameters in the same order with equal name, symbol, value and default
\* (the constructor's default parameters are not duplicated).
C4_FunctionRoundTrip ==
    (IsFunctionData(fnData) /\ fnData = Function_to_json(fn)) =>
        /\ fnLoaded.ok
        /\ fnLoaded.val.cls = fn.cls
        /\ fnLoaded.val.name = fn.name
        /\ fnLoaded.val.expr = fn.expr
        /\ Str(fnLoaded.val.expr) = Str(fn.expr)
        /\ fnLoaded.val.resolution = fn.resolution
        /\ fnLoaded.val.start_x = fn.start_x
        /\ fnLoaded.val.end_x = fn.end_x
        /\ Len(fnLoaded.val.parameters) = Len(fn.parameters)
        /\ \A k \in 1..Len(fn.parameters) :
               /\ fnLoaded.val.parameters[k].name = fn.parameters[k].name
               /\ fnLoaded.val.parameters[k].symbol = fn.parameters[k].symbol
               /\ fnLoaded.val.parameters[k].value = fn.parameters[k].value
               /\ fnLoaded.val.parameters[k].default = fn.parameters[k].default

\* a Gaussian whose second parameter was set away from its default has been
\* serialized and read back
C4_Witness ==
    /\ IsFunctionData(fnData)
    /\ fnData = Function_to_json(fn)
    /\ fn.cls = "GaussianFunction"
    /\ fn.parameters[2].value = IntV(3)
    /\ fn.parameters[2].default = IntV(1)
    /\ fnLoaded.ok
    /\ Len(fnLoaded.val.parameters) = 2

\* C7: Function.from_json with a name that is the name of no Function
\* subclass fails with an error; it never returns a Function object.
C7_UnknownFunctionNameFails ==
    (IsFunctionData(fnData) /\ fnData.name \notin KnownFunctionNames) => ~fnLoaded.ok

\* from_json was called with the name Triangle and raised
C7_Witness ==
    /\ IsFunctionData(fnData)
    /\ fnData.name = "Triangle"
    /\ fnLoaded = Raise("TypeError")

\* C8: an expression that cannot be turned into a symbolic expression
\* (malformed text, or a value that is neither text nor an expression) makes
\* Function(expr) and Function.from_json fail with an error.
C8_ExpressionErrorsNeverSilent ==
    (fnData # None /\ ~Sympifiable(fnData.expression)) => ~fnLoaded.ok

\* C9: evaluate(pulse_length, resolution) returns an array of exactly
\* floor(pulse_length / resolution) samples, using the Function's own
\* resolution when no resolution is given.
C9_EvaluateLength ==
    fnCall # NoCall =>
        LET res == IF fnCall.resolution = None THEN fnCall.f.resolution
                   ELSE fnCall.resolution
        IN  /\ samples.ok
            /\ samples.val.ty = "ndarray"
            /\ Len(samples.val.data) = fnCall.pulse_length.n \div res.n

\* a Sinc of 5 ticks was evaluated at its own resolution of 2 ticks and
\* gave 2 samples of its expression
C9_Witness ==
    /\ fnCall.f # None
    /\ fnCall.f.cls = "SincFunction"
    /\ fnCall.pulse_length = DecimalV(5)
    /\ fnCall.resolution = None
    /\ samples.ok
    /\ Len(samples.val.data) = 2
    /\ samples.val.data[1].f = "sinc"

\* C10: when the expression, after substituting the current value of every
\* parameter, is a numeric constant c, evaluate returns an array of length
\* floor(pulse_length / resolution) whose every element is c, none of them a
\* sample of the general evaluator; Rectangular yields all ones.
C10_ConstantShortcut ==
    (fnCall # NoCall /\
     Subs(fnCall.f.expr, found_variables(fnCall.f.parameters)).free = {}) =>
        LET res == IF fnCall.resolution = None THEN fnCall.f.resolution
                   ELSE fnCall.resolution
            c == ExprFloat(Subs(fnCall.f.expr, found_variables(fnCall.f.parameters)))
        IN  /\ samples.ok
            /\ samples.val.ty = "ndarray"
            /\ Len(samples.val.data) = fnCall.pulse_length.n \div res.n
            /\ \A k \in 1..Len(samples.val.data) :
                   /\ samples.val.data[k] = c
                   /\ "f" \notin DOMAIN samples.val.data[k]
            /\ fnCall.f.cls = "RectFunction" =>
                   \A k \in 1..Len(samples.val.data) : samples.val.data[k] = FloatV(1)

\* a Sinc whose scale factor was set to 0, so that its expression collapses
\* to a constant, was evaluated to a non-empty array
C10_Witness ==
    /\ fnCall.f # None
    /\ fnCall.f.cls = "SincFunction"
    /\ fnCall.f.parameters[1].value = IntV(0)
    /\ samples.ok
    /\ Len(samples.val.data) = 2

\* C13: a Function whose domain is degenerate is rejected: neither the
\* Function under edit nor any Function that Function(expr) or
\* Function.from_json returns has start_x >= end_x.
C13_DomainNotDegenerate ==
    /\ fn.start_x.n < fn.end_x.n
    /\ (fnLoaded # None /\ fnLoaded.ok) =>
           fnLoaded.val.start_x.n < fnLoaded.val.end_x.n

-----------------------------------------------------------------------------
(* Properties of Option, checked under SpecOption *)

KnownOptionTypes == {OptionTYPE(OptionSubclasses[i]) : i \in 1..Len(OptionSubclasses)}

\* C5: to_json emits exactly the keys name, value and type, value being the
\* serialized Function for a Function option; Option.from_json(o.to_json())
\* is an instance of the subclass whose TYPE is o's tag, built by
\* cls(name, value) unless the subclass has a from_json of its own
\* (FunctionOption), and has the same name and value.
C5_OptionDispatch ==
    (optData # None /\ optData = Option_to_json(opt).val) =>
        /\ DOMAIN optData = {"name", "value", "type"}
        /\ optData.name = opt.name
        /\ optData.type = OptionTYPE(opt.cls)
        /\ optData.type \in KnownOptionTypes
        /\ optData.value = IF opt.cls = "FunctionOption"
                           THEN Function_to_json(opt.value) ELSE opt.value
        /\ optLoaded.ok
        /\ optLoaded.val.cls = opt.cls
        /\ OptionTYPE(optLoaded.val.cls) = optData.type
        /\ optLoaded.val.name = opt.name
        /\ optLoaded.val.value = opt.value
        /\ optLoaded = IF opt.cls = "FunctionOption"
                       THEN FunctionOption_from_json(optData)
                       ELSE Ok(Option_init(opt.cls, optData.name, optData.value))

\* a Function option holding a Gaussian whose mean was set to 3 has been
\* serialized and read back
C5_Witness ==
    /\ optData # None
    /\ optData = Option_to_json(opt).val
    /\ optLoaded.ok
    /\ opt.cls = "FunctionOption"
    /\ opt.value.cls = "GaussianFunction"
    /\ opt.value.parameters[1].value = IntV(3)
    /\ optLoaded.val.cls = "FunctionOption"
    /\ optLoaded.val.value.parameters[1].value = IntV(3)

\* C6: Option.from_json with a type tag of no Option subclass fails with an
\* error; it never returns an option object.
C6_UnknownOptionTypeFails ==
    (optData # None /\ optData.type \notin KnownOptionTypes) => ~optLoaded.ok

-----------------------------------------------------------------------------
(* Properties of PulseSequence, checked under Spec *)

\* the keys of a registry
RegistryKeys(R) == {R[i].key : i \in 1..Len(R)}

\* the registry has every parameter name used in the sequence
Covers(R, S) ==
    \A e \in 1..Len(S.events) : \A p \in 1..Len(S.events[e].parameters) :
        S.events[e].parameters[p].key \in RegistryKeys(R)

\* two options have equal name, type tag and value
SameOption(a, b) ==
    /\ a.name = b.name
    /\ OptionTYPE(a.cls) = OptionTYPE(b.cls)
    /\ a.value = b.value

\* C1: for a sequence S and a registry R that has every parameter name used
\* in S, load_sequence(S.to_json(), R) succeeds and is structurally equal
\* to S: same sequence name, same events in order with the same names and
\* durations, the same parameter names in the same order, and per parameter
\* the same options in order with equal name, type tag and value.
C1_SequenceRoundTrip ==
    (pc = "loaded" /\ seqData = to_json(seq) /\ Covers(seqRegistry, seq)) =>
        /\ seqLoaded.ok
        /\ seqLoaded.val.name = seq.name
        /\ Len(seqLoaded.val.events) = Len(seq.events)
        /\ \A e \in 1..Len(seq.events) :
               LET a == seqLoaded.val.events[e]
                   b == seq.events[e]
               IN  /\ a.name = b.name
                   /\ a.duration = b.duration
                   /\ keys(a.parameters) = keys(b.parameters)
                   /\ \A p \in 1..Len(b.parameters) :
                          LET x == a.parameters[p].val.options
                              y == b.parameters[p].val.options
                          IN  /\ Len(x) = Len(y)
                              /\ \A o \in 1..Len(y) : SameOption(x[o], y[o])

\* a sequence of two events, the first with a readout and then a transmit
\* pulse whose shape is a Sinc with scale factor 3, was serialized and read
\* back under the full registry
C1_Witness ==
    /\ pc = "loaded"
    /\ seqRegistry = PulseParameterOptions
    /\ Len(seq.events) = 2
    /\ keys(seq.events[1].parameters) = <<"RX", "TX">>
    /\ seq.events[1].parameters[2].val.options[3].value.cls = "SincFunction"
    /\ seq.events[1].parameters[2].val.options[3].value.parameters[1].value = IntV(3)
    /\ seqLoaded.ok
    /\ keys(seqLoaded.val.events[1].parameters) = <<"RX", "TX">>
    /\ seqLoaded.val.events[1].parameters[2].val.options[3].value.parameters[1].value
           = IntV(3)

\* C3: to_json emits the keys name and events; one entry per event in the
\* order of the events list, each with the keys name, duration and
\* parameters; within an event one {name, value} entry per parameter in the
\* insertion order of the parameter mapping; within a parameter one option
\* entry per option in the order of its options list.
C3_ToJsonStructure ==
    pc \in {"dumped", "loaded"} =>
        /\ DOMAIN seqData = {"name", "events"}
        /\ seqData.name = seq.name
        /\ Len(seqData.events) = Len(seq.events)
        /\ \A e \in 1..Len(seq.events) :
               LET d == seqData.events[e]
                   b == seq.events[e]
               IN  /\ DOMAIN d = {"name", "duration", "parameters"}
                   /\ d.name = b.name
                   /\ d.duration = b.duration
                   /\ Len(d.parameters) = Len(b.parameters)
                   /\ \A p \in 1..Len(b.parameters) :
                          /\ DOMAIN d.parameters[p] = {"name", "value"}
                          /\ d.parameters[p].name = b.parameters[p].key
                          /\ Len(d.parameters[p].value) = Len(b.parameters[p].val.options)
                          /\ \A o \in 1..Len(b.parameters[p].val.options) :
                                 d.parameters[p].value[o] =
                                     Option_to_json(b.parameters[p].val.options[o]).val

\* a sequence of two events, the first with a readout and then a transmit
\* pulse of amplitude 2.0, was serialized: three option entries under the
\* second parameter entry of the first event
C3_Witness ==
    /\ pc = "dumped"
    /\ Len(seq.events) = 2
    /\ keys(seq.events[1].parameters) = <<"RX", "TX">>
    /\ seq.events[1].parameters[2].val.options[1].value = FloatV(2)
    /\ Len(seqData.events) = 2
    /\ seqData.events[1].parameters[2].name = "TX"
    /\ Len(seqData.events[1].parameters[2].value) = 3
    /\ seqData.events[1].parameters[2].value[1].value = FloatV(2)

-----------------------------------------------------------------------------
(* Properties of load_sequence on sequence files, checked under SpecLoad *)

\* the names of the parameter entries of one serialized event, in order
EntryNames(event) == [i \in 1..Len(event.parameters) |-> event.parameters[i].name]

\* the place of the first entry called name in a sequence of names
FirstIndex(names, name) ==
    CHOOSE i \in 1..Len(names) :
        names[i] = name /\ \A j \in 1..(i - 1) : names[j] # name

\* the serialized sequence without the entries whose name is no key of R
WithoutUnregistered(data, R) ==
    [name |-> data.name,
     events |-> [i \in 1..Len(data.events) |->
                    [name |-> data.events[i].name,
                     duration |-> data.events[i].duration,
                     parameters |-> SelectSeq(data.events[i].parameters,
                         LAMBDA entry : entry.name \in RegistryKeys(R))]]]

-----------------------------------------------------------------------------
(* Properties of the Option methods, checked under SpecOption *)

\* C11: NumericOption.set_value coerces its argument to a float:
\* set_value("3.5") leaves the option holding the float 3.5, a number is
\* stored as the float of the same magnitude, and an argument that cannot
\* be coerced (the text "abc", None) fails with an error and leaves the
\* option as it was.
C11_NumericCoercion ==
    (optCall.method = "set_value" /\ optCall.self.cls = "NumericOption") =>
        LET arg == optCall.arg
        IN  /\ arg = TextV("3.5") =>
                   optResult.ok /\ opt.value = [ty |-> "float", n |-> 3500]
            /\ arg.ty \in {"int", "float", "bool"} =>
                   optResult.ok /\ opt.value = [ty |-> "float", n |-> arg.n]
            /\ arg \in {TextV("abc"), None} =>
                   ~optResult.ok /\ opt = optCall.self
            /\ optResult.ok => opt.value.ty = "float"
            /\ opt.name = optCall.self.name /\ opt.cls = optCall.self.cls

\* a Numeric option holding 2.0 was given the text "abc": the call raised
\* ValueError and the option still holds 2.0
C11_Witness ==
    /\ optCall.method = "set_value"
    /\ optCall.self.cls = "NumericOption"
    /\ optCall.self.value = FloatV(2)
    /\ optCall.arg = TextV("abc")
    /\ optResult = Raise("ValueError")
    /\ opt.value = FloatV(2)

-----------------------------------------------------------------------------
(* Properties of Event, checked under SpecEvent *)

\* C12: on_duration_changed(value) replaces the duration only when
\* value > 0; for value <= 0 it fails with an error and the duration keeps
\* its previous value, so the duration of an event created with a positive
\* duration is always > 0.
C12_DurationStaysPositive ==
    /\ ev.duration.n > 0
    /\ (evCall.method = "on_duration_changed" /\ evCall.arg.n <= 0) =>
           ~evResult.ok /\ ev.duration = evCall.self.duration

-----------------------------------------------------------------------------
(* Properties of pulse parameters, checked under SpecParameter *)

\* C14: get_option_by_name(name) returns the first option, in option order,
\* whose name is name; when no option has that name it raises a ValueError
\* whose message says the option was not found and names it, and returns
\* no default; the options of the parameter are as before the call.
C14_GetOptionByName ==
    pulseParCall.method = "get_option_by_name" =>
        LET name == pulseParCall.arg.s
            options == pulseParCall.self.options
        IN  /\ pulsePar = pulseParCall.self
            /\ (\E i \in 1..Len(options) : options[i].name = name) =>
                   /\ pulseParResult.ok
                   /\ \E i \in 1..Len(options) :
                          /\ pulseParResult.val = options[i]
                          /\ options[i].name = name
                          /\ \A j \in 1..(i - 1) : options[j].name # name
            /\ (\A i \in 1..Len(options) : options[i].name # name) =>
                   /\ ~pulseParResult.ok
                   /\ pulseParResult.err = "ValueError"
                   /\ pulseParResult.msg = "Option with name " \o name \o " not found"

\* a readout parameter was asked for the option Amplitude, which it does not
\* have: ValueError naming Amplitude
C14_Witness ==
    /\ pulseParCall.method = "get_option_by_name"
    /\ pulseParCall.arg = TextV("Amplitude")
    /\ pulsePar.cls = "RXReadout"
    /\ pulseParResult = RaiseMsg("ValueError", "Option with name Amplitude not found")

-----------------------------------------------------------------------------
(* Properties of FunctionOption, checked under SpecOption *)

\* C15: get_function_by_name(name) returns the choice whose name is name;
\* when no choice has that name it raises an error whose message says the
\* function was not found and names it; the value and the choices of the
\* option are as before the call.
C15_GetFunctionByName ==
    optCall.method = "get_function_by_name" =>
        LET name == optCall.arg.s
            functions == optCall.self.functions
        IN  /\ opt = optCall.self
            /\ (\E i \in 1..Len(functions) : functions[i].name = name) =>
                   /\ optResult.ok
                   /\ optResult.val.name = name
                   /\ \E i \in 1..Len(functions) : optResult.val = functions[i]
            /\ (\A i \in 1..Len(functions) : functions[i].name # name) =>
                   /\ ~optResult.ok
                   /\ optResult.msg = "Function with name " \o name \o " not found"

\* a pulse shape option whose value is the Sinc was asked for Triangle,
\* which is none of its choices: an error naming Triangle
C15_Witness ==
    /\ optCall.method = "get_function_by_name"
    /\ optCall.arg = TextV("Triangle")
    /\ opt.value.cls = "SincFunction"
    /\ optResult = RaiseMsg("ValueError", "Function with name Triangle not found")

\* C16: after FunctionOption.from_json succeeds, the name of the option's
\* value is the name of one of its choices, so that
\* get_function_by_name(value.name) succeeds, whatever function name was
\* serialized; the value need not be the choice itself.
C16_LoadedValueIsAChoice ==
    (optData # None /\ optData.type = "Function" /\ optLoaded.ok) =>
        /\ optLoaded.val.cls = "FunctionOption"
        /\ \E i \in 1..Len(optLoaded.val.functions) :
               optLoaded.val.functions[i].name = optLoaded.val.value.name
        /\ get_function_by_name(optLoaded.val, optLoaded.val.value.name).ok

\* a serialized pulse shape option holding a Sinc with scale factor 3 was
\* read: its value is called Sinc like the second choice, and is not that
\* choice, whose scale factor is 2
C16_Witness ==
    /\ optData # None
    /\ optData.type = "Function"
    /\ optLoaded.ok
    /\ optLoaded.val.value.name = "Sinc"
    /\ optLoaded.val.value.parameters[1].value = IntV(3)
    /\ optLoaded.val.functions[2].name = "Sinc"
    /\ optLoaded.val.functions[2] # optLoaded.val.value

-----------------------------------------------------------------------------
(* Properties of load_event on sequence files, checked under SpecLoad *)

\* the place of the last entry called name in a sequence of names
LastIndex(names, name) ==
    CHOOSE i \in 1..Len(names) :
        names[i] = name /\ \A j \in (i + 1)..Len(names) : names[j] # name

\* the class the registry R holds under key
RegistryClass(R, key) == R[CHOOSE i \in 1..Len(R) : R[i].key = key].val

OptionSet(p) ==
    [o \in 1..Len(p.options) |->
        [name |-> p.options[o].name, type |-> OptionTYPE(p.options[o].cls)]]

\* C18: every parameter of an event that load_event returns has the option
\* names and type tags its registry constructor declares; an entry whose
\* stored option list does not match never yields a parameter with a
\* re-shaped option list.
C18_OptionSetAsDeclared ==
    (fileLoaded # None /\ fileLoaded.ok) =>
        \A e \in 1..Len(fileLoaded.val.events) :
            \A p \in 1..Len(fileLoaded.val.events[e].parameters) :
                LET a == fileLoaded.val.events[e].parameters[p].val
                IN  OptionSet(a) = OptionSet(pulse_parameter_class(a.cls, a.name))

-----------------------------------------------------------------------------
(* Properties of Event.add_parameter, checked under SpecEvent *)

\* C23: add_parameter inserts the given pulse parameter into the event's
\* name-keyed ordered mapping after all parameters added before, so the
\* mapping lists the parameters in call order.
C23_AddParameterAppends ==
    (evCall.method = "add_parameter"
        /\ \A p \in 1..Len(evCall.self.parameters) :
               TextV(evCall.self.parameters[p].key) # evCall.arg) =>
        /\ evResult.ok
        /\ Len(ev.parameters) = Len(evCall.self.parameters) + 1
        /\ TextV(ev.parameters[Len(ev.parameters)].key) = evCall.arg
        /\ \A p \in 1..Len(evCall.self.parameters) :
               ev.parameters[p] = evCall.self.parameters[p]

-----------------------------------------------------------------------------
(* Properties of duplicate names, checked under SpecLoad and SpecParameter *)

\* C24: when an event of the file stores two parameter entries under one
\* registered name, load_sequence reports an error instead of letting the
\* later entry replace the earlier one.
C24_DuplicateNamesRejected ==
    (fileLoaded # None
        /\ \E e \in 1..Len(file.events) :
               \E i, j \in 1..Len(file.events[e].parameters) :
                   /\ i < j
                   /\ file.events[e].parameters[i].name = file.events[e].parameters[j].name
                   /\ file.events[e].parameters[i].name \in RegistryKeys(fileRegistry)) =>
        ~fileLoaded.ok

\* C25: no two options of one pulse parameter have the same name, after
\* construction and after any add_option calls.
C25_OptionNamesUnique ==
    pulsePar # None =>
        \A i, j \in 1..Len(pulsePar.options) :
            pulsePar.options[i].name = pulsePar.options[j].name => i = j

-----------------------------------------------------------------------------
(* Properties of BooleanOption.set_value, checked under SpecOption *)

\* C26: BooleanOption.set_value(v) accepts any argument and stores its
\* truth value, the boolean True for a truthy v and the boolean False for
\* a falsy one, so a Boolean option always holds a boolean.
C26_BooleanHoldsBoolean ==
    (opt # None /\ opt.cls = "BooleanOption") =>
        /\ opt.value.ty = "bool"
        /\ optCall.method = "set_value" =>
               /\ optResult.ok
               /\ opt.value = PyBool(optCall.arg)

-----------------------------------------------------------------------------
(* Properties of the previews, checked under SpecParameter *)

\* C22: the preview get_pixmap selects for a TXPulse is the off preview
\* exactly when the value of Relative TX Amplitude is zero, and for every
\* other amplitude, negative ones included, the preview of the selected
\* TX Pulse Shape function.
C22_PreviewKey ==
    (pulsePar # None /\ pulsePar.cls = "TXPulse") =>
        LET amplitude == get_option_by_name(pulsePar, "Relative TX Amplitude").val.value
            shape == get_option_by_name(pulsePar, "TX Pulse Shape").val.value
        IN  get_pixmap(pulsePar) =
                IF amplitude.n = 0 THEN Ok("TXOff") ELSE Ok(Function_get_pixmap(shape))

-----------------------------------------------------------------------------
(* Properties of settings, checked under SpecSetting *)

\* C19: a value-change request (on_value_changed, on_state_updated) that is
\* accepted and stored emits settings_changed exactly once, and a request
\* whose value is rejected emits it zero times, on every setting type.
C19_ChangeNotifiedOnce ==
    settingCall.method \in {"on_value_changed", "on_state_updated"} =>
        /\ settingResult.stored => settingResult.emitted = 1
        /\ ~settingResult.stored => settingResult.emitted = 0

-----------------------------------------------------------------------------
(* Properties of the spectrometer module, checked under SpecMenu *)

\* the spectrometer stored under a name of available_spectrometers
Available(model, name) == OD_get(model.available_spectrometers, name)

C28_MenuConsistency ==
    menuPc = "ready" =>
        LET actions == spectrometerView.actions
            checked == {i \in 1..Len(actions) : actions[i].val.checked}
        IN  /\ Cardinality(checked) = 1
            /\ \A i \in checked :
                   Available(spectrometerModel, actions[i].key)
                       = spectrometerModel.active_spectrometer

\* the signals of the model among the entries of a trace
Signals(trace) ==
    SelectSeq(trace, LAMBDA e : e.op \in {"spectrometer_added", "active_spectrometer_changed"})

\* C29: add_spectrometers(name, module) emits spectrometer_added(module)
\* once and then active_spectrometer_changed(module) once, so the view has
\* added the settings widget of the module to the stacked widget before it
\* is asked to make it current; every assignment to active_spectrometer
\* emits active_spectrometer_changed once with the new value, and a call
\* that assigns nothing emits nothing.
C29_SignalOrder ==
    menuCall.method # "" =>
        LET trace == menuResult.trace
            assigned == menuCall.method = "add_spectrometers"
                            \/ (menuCall.method = "on_menu_button_clicked" /\ menuResult.ok)
        IN  /\ menuCall.method = "add_spectrometers" =>
                   Signals(trace) =
                       <<[op |-> "spectrometer_added", arg |-> menuCall.arg.module],
                         [op |-> "active_spectrometer_changed", arg |-> menuCall.arg.module]>>
            /\ menuCall.method # "add_spectrometers" =>
                   Signals(trace) =
                       IF assigned
                       THEN <<[op |-> "active_spectrometer_changed",
                               arg |-> spectrometerModel.active_spectrometer]>>
                       ELSE <<>>
            /\ ~assigned => spectrometerModel.active_spectrometer
                                = menuCall.self.model.active_spectrometer
            /\ \A i \in 1..Len(trace) :
                   (trace[i].op = "setCurrentWidget"
                        /\ trace[i].arg.stack = "stackedWidgetSettings") =>
                       trace[i].arg.contained

\* a second spectrometer was added: its settings widget was new to the
\* stacked widget when spectrometer_added arrived and is current now
C29_Witness ==
    /\ menuCall.method = "add_spectrometers"
    /\ Len(spectrometerModel.available_spectrometers) = 2
    /\ menuCall.arg.module.settings_view
           \notin menuCall.self.view.stackedWidgetSettings.widgets
    /\ \E i \in 1..Len(menuResult.trace) :
           /\ menuResult.trace[i].op = "addWidget"
           /\ menuResult.trace[i].arg.stack = "stackedWidgetSettings"
           /\ ~menuResult.trace[i].arg.contained
    /\ spectrometerView.stackedWidgetSettings.current = menuCall.arg.module.settings_view

-----------------------------------------------------------------------------
(* Properties of load_settings, checked under SpecController *)

\* the keys of the dict read from a settings file
FileKeys(json) == {json[k].key : k \in 1..Len(json)}

\* the settings whose name is no key of the file, in the order of the loops
Missing(settings, json) ==
    SelectSeq(all_settings(settings, 1), LAMBDA s : s.name \notin FileKeys(json))

-----------------------------------------------------------------------------
(* Frame properties of serialization, checked under Spec *)

-----------------------------------------------------------------------------
(* Properties of the two object graphs (SpecHeap). *)

\* the methods that edit a sequence
EditMethods ==
    {"set_value", "Parameter.set_value", "add_parameter", "on_duration_changed"}

\* C21: once a second sequence was loaded from the serialized form of the
\* first (or both were loaded from the same data), the two sequences reach
\* no object in common, no two of all their Functions hold the same list of
\* parameters, and a call of Option.set_value, Function.Parameter.set_value,
\* Function.add_parameter or Event.on_duration_changed on one sequence
\* leaves the to_json output of the other as it was before the call.
C21_NoSharedState ==
    (roots[1] # 0 /\ roots[2] # 0) =>
        /\ Reach(heap, {roots[1]}, {}) \cap Reach(heap, {roots[2]}, {}) = {}
        /\ \A x \in 1..2 :
              \A f, g \in {a \in Reach(heap, {roots[x]}, {}) : heap[a].kind = "Function"} :
                 f # g => heap[f].parameters # heap[g].parameters
        /\ heapCall.method \in EditMethods =>
              to_json_at(heap, roots[3 - heapCall.arg.on])
                 = heapCall.self[3 - heapCall.arg.on]

\* a parameter was added to a Function of the first sequence after the
\* second was loaded from its serialized form: the to_json output of the
\* first changed and that of the second did not
C21_Witness ==
    /\ roots[1] # 0 /\ roots[2] # 0
    /\ heapCall.method = "add_parameter"
    /\ heapCall.arg.on = 1
    /\ heapCall.self[2] # None
    /\ to_json_at(heap, roots[1]) # heapCall.self[1]
    /\ to_json_at(heap, roots[2]) = heapCall.self[2]

====
